---- MODULE Spec2Model ----
(***************************************************************************)
(* A model of the sbom-visualizer core: format detection and the SPDX and  *)
(* CycloneDX converters (core/parser.py, core/parsers/), the dependency    *)
(* tree builder (core/dependency_viewer.py) and the analyzer               *)
(* (core/analyzer.py), over the data model of models/sbom_models.py.       *)
(*                                                                         *)
(* The program is a single-shot pipeline of functions.  Each operation of  *)
(* the code is one action; its input is the file or the Document held in   *)
(* the state, drawn from bounded sets by the initial condition.            *)
(***************************************************************************)
EXTENDS Integers, Sequences, FiniteSets, TLC

VARIABLES
    file,      \* the input file (name and content), or NoFile
    sbom,      \* the SBOMData the operations work on, or NoDoc
    result     \* what the last operation returned or raised

vars == <<file, sbom, result>>

(***************************************************************************)
(* Generic helpers.                                                        *)
(***************************************************************************)
None == "<None>"     \* Python's None

NoFile == [kind |-> "nofile"]

NoDoc == [kind |-> "nodoc"]

NoResult == [op |-> "none"]

Max(a, b) == IF a >= b THEN a ELSE b

Range(s) == {s[i] : i \in DOMAIN s}

\* Python truthiness of an Optional[str]: None and "" are falsy.
Truthy(v) == v # None /\ v # ""

\* All sequences over S of length at most n.
SeqsUpTo(S, n) == UNION {[1..k -> S] : k \in 0..n}

RECURSIVE SumSeq(_)
SumSeq(s) == IF s = <<>> THEN 0 ELSE Head(s) + SumSeq(Tail(s))

\* A plausible slip: the slice starts at the head of the list.
IndexOfHead(s, x) == 1

\* First index of x in s (list.index); only used when x occurs in s.
ListIndex(s, x) == CHOOSE i \in DOMAIN s : s[i] = x /\ \A j \in 1..(i - 1) : s[j] # x

(***************************************************************************)
(* models/sbom_models.py: the normalized data model.                       *)
(***************************************************************************)
Dependency(package_id, package_name, relationship_type) ==
    [package_id |-> package_id, package_name |-> package_name,
     version_constraint |-> None, relationship_type |-> relationship_type]

License(identifier, name, url) ==
    [identifier |-> identifier, name |-> name, url |-> url, is_osi_approved |-> None]

Vulnerability(cve_id, severity) ==
    [cve_id |-> cve_id, severity |-> severity, description |-> None,
     affected_versions |-> None]

Package(id, name, version, description, licenses, dependencies, vulnerabilities, purl, supplier, homepage, source_info, checksums) ==
    [id |-> id, name |-> name, version |-> version, description |-> description,
     licenses |-> licenses, dependencies |-> dependencies,
     vulnerabilities |-> vulnerabilities, purl |-> purl, supplier |-> supplier,
     homepage |-> homepage, source_info |-> source_info, checksums |-> checksums]

SBOMData(format, version, document_name, document_namespace, created, creator, packages, relationships, metadata) ==
    [kind |-> "doc", format |-> format, version |-> version,
     document_name |-> document_name, document_namespace |-> document_namespace,
     created |-> created, creator |-> creator, packages |-> packages,
     relationships |-> relationships, metadata |-> metadata]

\* A Document built directly, as a caller of the library builds one.
PlainDoc(packages) ==
    SBOMData("spdx", "2.3", "Test SBOM", "https://example.com/test", "2024-01-01T00:00:00",
             "Test Creator", packages, <<>>, <<>>)

(***************************************************************************)
(* core/dependency_viewer.py: DependencyViewer.                            *)
(*                                                                         *)
(* A Python dict is modelled as [keys, adj]: keys is the insertion order   *)
(* (the order a for loop over the dict visits), adj the mapping.           *)
(***************************************************************************)
EmptyGraph == [keys |-> <<>>, adj |-> <<>>]

\* dependency_graph.get(name, [])
GraphGet(g, name) == IF name \in DOMAIN g.adj THEN g.adj[name] ELSE <<>>

\* dependency_graph[name].append(dep) on a defaultdict(list)
GraphAppend(g, name, dep) ==
    IF name \in DOMAIN g.adj
    THEN [g EXCEPT !.adj[name] = Append(@, dep)]
    ELSE [keys |-> Append(g.keys, name),
          adj  |-> [n \in (DOMAIN g.adj) \cup {name} |->
                        IF n = name THEN <<dep>> ELSE g.adj[n]]]

RECURSIVE GraphAddDeps(_, _, _)
GraphAddDeps(g, name, deps) ==
    IF deps = <<>> THEN g
    ELSE GraphAddDeps(GraphAppend(g, name, Head(deps).package_name), name, Tail(deps))

RECURSIVE GraphAddPackages(_, _)
GraphAddPackages(g, packages) ==
    IF packages = <<>> THEN g
    ELSE GraphAddPackages(
             GraphAddDeps(g, Head(packages).name, Head(packages).dependencies),
             Tail(packages))

\* A key is created only by an append: a package without dependencies gets none.
_build_dependency_graph(sbom_data) == GraphAddPackages(EmptyGraph, sbom_data.packages)

\* "Find packages with no incoming dependencies."
_find_root_packages(sbom_data, dependency_graph) ==
    LET all_dependents == UNION {Range(dependency_graph.adj[k]) : k \in DOMAIN dependency_graph.adj}
        names == [i \in DOMAIN sbom_data.packages |-> sbom_data.packages[i].name]
    IN  SelectSeq(names, LAMBDA n : n \notin all_dependents)

\* dict assignment d[k] = v
DictPut(d, k, v) == [x \in (DOMAIN d) \cup {k} |-> IF x = k THEN v ELSE d[x]]

\* The nested calculate_depth: st = [visited, depth_analysis] is the closure state.
RECURSIVE calculate_depth(_, _, _, _)
RECURSIVE calculate_depth_loop(_, _, _, _, _)
calculate_depth(g, package_name, depth, st) ==
    IF package_name \in st.visited
    THEN [ret |-> depth, st |-> st]
    ELSE LET r == calculate_depth_loop(g, GraphGet(g, package_name), depth, depth,
                                       [st EXCEPT !.visited = @ \cup {package_name}])
         IN  [ret |-> r.ret,
              st  |-> [r.st EXCEPT !.depth_analysis = DictPut(@, package_name, r.ret)]]

calculate_depth_loop(g, deps, depth, max_depth, st) ==
    IF deps = <<>>
    THEN [ret |-> max_depth, st |-> st]
    ELSE LET c == calculate_depth(g, Head(deps), depth + 1, st)
         IN  calculate_depth_loop(g, Tail(deps), depth, Max(max_depth, c.ret), c.st)

RECURSIVE DepthOverPackages(_, _, _)
DepthOverPackages(g, packages, st) ==
    IF packages = <<>> THEN st
    ELSE DepthOverPackages(g, Tail(packages),
             IF Head(packages).name \notin st.visited
             THEN calculate_depth(g, Head(packages).name, 0, st).st
             ELSE st)

_calculate_depth_analysis(sbom_data, dependency_graph) ==
    DepthOverPackages(dependency_graph, sbom_data.packages,
                      [visited |-> {}, depth_analysis |-> <<>>]).depth_analysis

\* The nested dfs: st = [visited, rec_stack, circular_deps] is the closure state.
RECURSIVE dfs(_, _, _, _)
RECURSIVE dfs_loop(_, _, _, _)
dfs(g, node, path, st) ==
    IF node \in st.rec_stack
    THEN [st EXCEPT !.circular_deps =
              Append(@, SubSeq(path, ListIndex(path, node), Len(path)) \o <<node>>)]
    ELSE IF node \in st.visited
    THEN st
    ELSE LET st2 == dfs_loop(g, GraphGet(g, node), Append(path, node),
                             [st EXCEPT !.visited = @ \cup {node},
                                        !.rec_stack = @ \cup {node}])
         IN  [st2 EXCEPT !.rec_stack = @ \ {node}]

dfs_loop(g, neighbors, path, st) ==
    IF neighbors = <<>> THEN st
    ELSE dfs_loop(g, Tail(neighbors), path, dfs(g, Head(neighbors), path, st))

RECURSIVE DfsOverKeys(_, _, _)
DfsOverKeys(g, keys, st) ==
    IF keys = <<>> THEN st
    ELSE DfsOverKeys(g, Tail(keys),
             IF Head(keys) \notin st.visited THEN dfs(g, Head(keys), <<>>, st) ELSE st)

\* A plausible slip: the search starts at the first key only.
FindCircularFromFirstKeyOnly(dependency_graph) ==
    DfsOverKeys(dependency_graph,
                IF dependency_graph.keys = <<>> THEN <<>> ELSE <<Head(dependency_graph.keys)>>,
                [visited |-> {}, rec_stack |-> {}, circular_deps |-> <<>>]).circular_deps

_find_circular_dependencies(dependency_graph) ==
    DfsOverKeys(dependency_graph, dependency_graph.keys,
                [visited |-> {}, rec_stack |-> {}, circular_deps |-> <<>>]).circular_deps

\* A plausible slip: the keys are counted, not their dependencies.
TotalDependenciesCountsKeys(g) == Len(g.keys)

\* sum(len(deps) for deps in dependency_graph.values())
TotalDependencies(g) == SumSeq([i \in DOMAIN g.keys |-> Len(g.adj[g.keys[i]])])

\* max(depth_analysis.values()) if depth_analysis else 0
MaxDepthOf(depth_analysis) ==
    IF DOMAIN depth_analysis = {} THEN 0
    ELSE CHOOSE m \in Range(depth_analysis) : \A v \in Range(depth_analysis) : v <= m

generate_tree(sbom_data) ==
    LET dependency_graph == _build_dependency_graph(sbom_data)
        depth_analysis   == _calculate_depth_analysis(sbom_data, dependency_graph)
    IN  [root_packages         |-> _find_root_packages(sbom_data, dependency_graph),
         tree_structure        |-> dependency_graph.adj,
         depth_analysis        |-> depth_analysis,
         circular_dependencies |-> _find_circular_dependencies(dependency_graph),
         total_dependencies    |-> TotalDependencies(dependency_graph),
         max_depth             |-> MaxDepthOf(depth_analysis)]

(***************************************************************************)
(* core/analyzer.py: SBOMAnalyzer.                                         *)
(*                                                                         *)
(* A Counter or dict whose iteration order is not observed is a function.  *)
(* The float completeness score (total_score / max_score) * 100 is kept as *)
(* the exact fraction [num, den] it denotes.                               *)
(***************************************************************************)
\* counter[k] += 1
CounterInc(c, k) == DictPut(c, k, IF k \in DOMAIN c THEN c[k] + 1 ELSE 1)

RECURSIVE CountLicenses(_, _)
CountLicenses(c, licenses) ==
    IF licenses = <<>> THEN c
    ELSE CountLicenses(IF Truthy(Head(licenses).identifier)
                       THEN CounterInc(c, Head(licenses).identifier) ELSE c,
                       Tail(licenses))

RECURSIVE CountPackageLicenses(_, _)
CountPackageLicenses(c, packages) ==
    IF packages = <<>> THEN c
    ELSE CountPackageLicenses(CountLicenses(c, Head(packages).licenses), Tail(packages))

\* The license_distribution half of _analyze_licenses; unique_licenses is
\* list(set(...)) of its keys, in whatever order the set iterates.
_analyze_licenses(sbom_data) == CountPackageLicenses(<<>>, sbom_data.packages)

\* The orders list(a set) can give.
ListsOfSet(S) ==
    {q \in [1..Cardinality(S) -> S] : \A i, j \in 1..Cardinality(S) : i # j => q[i] # q[j]}

\* The id-keyed graph of _analyze_dependencies.
RECURSIVE IdGraphAddDeps(_, _, _)
IdGraphAddDeps(g, id, deps) ==
    IF deps = <<>> THEN g
    ELSE IdGraphAddDeps(GraphAppend(g, id, Head(deps).package_id), id, Tail(deps))

RECURSIVE IdGraphAddPackages(_, _)
IdGraphAddPackages(g, packages) ==
    IF packages = <<>> THEN g
    ELSE IdGraphAddPackages(
             IdGraphAddDeps(g, Head(packages).id, Head(packages).dependencies),
             Tail(packages))

\* The nested dfs of _calculate_package_depth; visited is shared by the whole call.
RECURSIVE package_depth_dfs(_, _, _, _)
RECURSIVE package_depth_loop(_, _, _, _, _)
package_depth_dfs(g, node, depth, visited) ==
    IF node \in visited
    THEN [ret |-> depth, visited |-> visited]
    ELSE package_depth_loop(g, GraphGet(g, node), depth, depth, visited \cup {node})

package_depth_loop(g, deps, depth, max_depth, visited) ==
    IF deps = <<>>
    THEN [ret |-> max_depth, visited |-> visited]
    ELSE LET c == package_depth_dfs(g, Head(deps), depth + 1, visited)
         IN  package_depth_loop(g, Tail(deps), depth, Max(max_depth, c.ret), c.visited)

_calculate_package_depth(package_id, dependency_graph) ==
    package_depth_dfs(dependency_graph, package_id, 0, {}).ret

RECURSIVE DepthPerPackage(_, _, _)
DepthPerPackage(d, packages, g) ==
    IF packages = <<>> THEN d
    ELSE DepthPerPackage(
             DictPut(d, Head(packages).name, _calculate_package_depth(Head(packages).id, g)),
             Tail(packages), g)

_analyze_dependencies(sbom_data) ==
    DepthPerPackage(<<>>, sbom_data.packages,
                    IdGraphAddPackages(EmptyGraph, sbom_data.packages))

RECURSIVE CountVulnerabilities(_, _)
CountVulnerabilities(c, vulns) ==
    IF vulns = <<>> THEN c
    ELSE CountVulnerabilities(
             CounterInc(c, IF Truthy(Head(vulns).severity) THEN Head(vulns).severity
                           ELSE "unknown"),
             Tail(vulns))

RECURSIVE CountPackageVulnerabilities(_, _)
CountPackageVulnerabilities(c, packages) ==
    IF packages = <<>> THEN c
    ELSE CountPackageVulnerabilities(
             CountVulnerabilities(c, Head(packages).vulnerabilities), Tail(packages))

\* severity = vuln.severity or "unknown"; the severity string is the key as it is.
_analyze_vulnerabilities(sbom_data) == CountPackageVulnerabilities(<<>>, sbom_data.packages)

NamePoints == 20

VersionPoints == 20

DescriptionPoints == 20

LicensePoints == 20

DependencyPoints == 10

MetadataPoints == 10

PackageMaxScore == 100

\* A plausible slip: dependencies weighted like the other 20-point items.
PackageScoreDependencies20(package) ==
      (IF Truthy(package.name) THEN NamePoints ELSE 0)
    + (IF Truthy(package.version) THEN VersionPoints ELSE 0)
    + (IF Truthy(package.description) THEN DescriptionPoints ELSE 0)
    + (IF package.licenses # <<>> THEN LicensePoints ELSE 0)
    + (IF package.dependencies # <<>> THEN LicensePoints ELSE 0)
    + (IF Truthy(package.supplier) \/ Truthy(package.homepage) \/ Truthy(package.purl)
       THEN MetadataPoints ELSE 0)

PackageScore(package) ==
      (IF Truthy(package.name) THEN NamePoints ELSE 0)
    + (IF Truthy(package.version) THEN VersionPoints ELSE 0)
    + (IF Truthy(package.description) THEN DescriptionPoints ELSE 0)
    + (IF package.licenses # <<>> THEN LicensePoints ELSE 0)
    + (IF package.dependencies # <<>> THEN DependencyPoints ELSE 0)
    + (IF Truthy(package.supplier) \/ Truthy(package.homepage) \/ Truthy(package.purl)
       THEN MetadataPoints ELSE 0)

RECURSIVE TotalScore(_)
TotalScore(packages) ==
    IF packages = <<>> THEN 0
    ELSE PackageScore(Head(packages)) + TotalScore(Tail(packages))

\* Returns 0.0 for no packages, else (total_score / max_score) * 100.
_calculate_completeness(sbom_data) ==
    IF sbom_data.packages = <<>>
    THEN [num |-> 0, den |-> 1]
    ELSE [num |-> TotalScore(sbom_data.packages) * 100,
          den |-> Len(sbom_data.packages) * PackageMaxScore]

LowCompleteness == 50

ModerateCompleteness == 80

NamedInMessage == 5

\* score < bound, for the fraction score
ScoreBelow(score, bound) == score.num < bound * score.den

\* [p.name for p in ...]
NamesOf(packages) == [i \in DOMAIN packages |-> packages[i].name]

\* A plausible slip: every name is listed.
EveryName(names) == names

\* names[:5]
FirstNames(names) == SubSeq(names, 1, IF Len(names) < NamedInMessage THEN Len(names) ELSE NamedInMessage)

RECURSIVE TotalVulnerabilities(_)
TotalVulnerabilities(packages) ==
    IF packages = <<>> THEN 0
    ELSE Len(Head(packages).vulnerabilities) + TotalVulnerabilities(Tail(packages))

\* Each message is kept as its rule and the names or the count it prints.
_generate_recommendations(sbom_data, completeness_score) ==
    LET ps         == sbom_data.packages
        no_license == NamesOf(SelectSeq(ps, LAMBDA p : p.licenses = <<>>))
        no_deps    == NamesOf(SelectSeq(ps, LAMBDA p : p.dependencies = <<>> /\ Len(ps) > 1))
        no_version == NamesOf(SelectSeq(ps, LAMBDA p : ~Truthy(p.version)))
        total_vuln == TotalVulnerabilities(ps)
    IN    (IF ScoreBelow(completeness_score, LowCompleteness)
           THEN <<[rule |-> "completeness_low"]>>
           ELSE IF ScoreBelow(completeness_score, ModerateCompleteness)
           THEN <<[rule |-> "completeness_moderate"]>>
           ELSE <<>>)
       \o (IF no_license # <<>>
           THEN <<[rule |-> "licenses", names |-> FirstNames(no_license)]>> ELSE <<>>)
       \o (IF no_deps # <<>>
           THEN <<[rule |-> "dependencies", names |-> FirstNames(no_deps)]>> ELSE <<>>)
       \o (IF no_version # <<>>
           THEN <<[rule |-> "versions", names |-> FirstNames(no_version)]>> ELSE <<>>)
       \o (IF total_vuln > 0
           THEN <<[rule |-> "vulnerabilities", count |-> total_vuln]>> ELSE <<>>)

\* analyze(sbom_data), given the order list(unique_licenses) came out in.
analyze(sbom_data, unique_licenses) ==
    LET completeness_score == _calculate_completeness(sbom_data)
    IN  [total_packages        |-> Len(sbom_data.packages),
         unique_licenses       |-> unique_licenses,
         license_distribution  |-> _analyze_licenses(sbom_data),
         dependency_depth      |-> _analyze_dependencies(sbom_data),
         vulnerability_summary |-> _analyze_vulnerabilities(sbom_data),
         completeness_score    |-> completeness_score,
         recommendations       |-> _generate_recommendations(sbom_data, completeness_score)]

(***************************************************************************)
(* Documents handed to the dependency tree builder: up to MaxPkgs packages *)
(* named from Names, with at most MaxEdges dependencies in all, each on a  *)
(* name of Names (a name no package carries is a dangling reference).      *)
(***************************************************************************)
Names == {"flask", "requests", "urllib3"}

MaxPkgs == 3

MaxEdges == 3

MaxRunEdges == 2

\* Package ids by position in the package list.
PkgIds == <<"pkg1", "pkg2", "pkg3", "pkg4", "pkg5", "pkg6", "pkg7">>

GhostId == "pkg-unknown"

\* The package list with the given names, whose i-th package has the next
\* lens[i] entries of flat as its dependency target names.
TreeShape(names, lens, flat) ==
    [i \in DOMAIN names |->
        [name |-> names[i],
         deps |-> SubSeq(flat, SumSeq(SubSeq(lens, 1, i - 1)) + 1, SumSeq(SubSeq(lens, 1, i)))]]

\* The id of the first package named n, or GhostId.
IdOfName(shape, n) ==
    IF \E i \in DOMAIN shape : shape[i].name = n
    THEN PkgIds[CHOOSE i \in DOMAIN shape : shape[i].name = n /\ \A j \in 1..(i - 1) : shape[j].name # n]
    ELSE GhostId

TreeDoc(shape) ==
    PlainDoc([i \in DOMAIN shape |->
        Package(PkgIds[i], shape[i].name, "1.0.0", "a package", <<License("MIT", None, None)>>,
                [j \in DOMAIN shape[i].deps |->
                    Dependency(IdOfName(shape, shape[i].deps[j]), shape[i].deps[j], "DEPENDS_ON")],
                <<>>, None, None, None, None, <<>>)])

InitTree ==
    /\ file = NoFile
    /\ result = NoResult
    /\ \E k \in 0..MaxPkgs :
           \E names \in [1..k -> Names], lens \in [1..k -> 0..MaxEdges] :
               /\ SumSeq(lens) <= MaxEdges
               /\ \E flat \in [1..SumSeq(lens) -> Names] :
                      sbom = TreeDoc(TreeShape(names, lens, flat))

\* DependencyViewer.generate_tree(sbom_data)
GenerateTree ==
    /\ sbom # NoDoc
    /\ result = NoResult
    /\ result' = [op |-> "generate_tree", tree |-> generate_tree(sbom)]
    /\ UNCHANGED <<file, sbom>>

NextTree == GenerateTree

SpecTree == InitTree /\ [][NextTree]_vars

(***************************************************************************)
(* What the claims about the dependency tree speak of, stated over the     *)
(* Document itself: its name-keyed edges, their cycles and longest paths.  *)
(***************************************************************************)
PkgNames(d) == {d.packages[i].name : i \in DOMAIN d.packages}

DocEdges(d) ==
    UNION {{<<d.packages[i].name, d.packages[i].dependencies[j].package_name>> :
               j \in DOMAIN d.packages[i].dependencies} : i \in DOMAIN d.packages}

EdgeNodes(E) == {e[1] : e \in E} \cup {e[2] : e \in E}

Succ(E, n) == {e[2] : e \in {x \in E : x[1] = n}}

\* The simple directed cycles of E, each as the sequence of its distinct nodes.
SimpleCycles(E) ==
    {c \in UNION {[1..k -> EdgeNodes(E)] : k \in 1..Cardinality(EdgeNodes(E))} :
        /\ \A i, j \in DOMAIN c : i # j => c[i] # c[j]
        /\ \A i \in DOMAIN c : <<c[i], c[(i % Len(c)) + 1]>> \in E}

HasCycle(E) == SimpleCycles(E) # {}

IsRotation(a, b) ==
    /\ Len(a) = Len(b)
    /\ \E k \in 0..(Len(a) - 1) : \A i \in DOMAIN a : b[i] = a[((i - 1 + k) % Len(a)) + 1]

\* Number of edges on the longest path from n (E acyclic).
RECURSIVE LongestPath(_, _)
LongestPath(E, n) ==
    IF Succ(E, n) = {} THEN 0
    ELSE LET ls == {LongestPath(E, m) : m \in Succ(E, n)}
         IN  1 + CHOOSE l \in ls : \A x \in ls : x <= l

\* The dependency target names of the packages named n, in list order.
RECURSIVE DepNamesOf(_, _)
DepNamesOf(packages, n) ==
    IF packages = <<>> THEN <<>>
    ELSE (IF Head(packages).name = n
          THEN [j \in DOMAIN Head(packages).dependencies |-> Head(packages).dependencies[j].package_name]
          ELSE <<>>) \o DepNamesOf(Tail(packages), n)

TreeDone == result.op = "generate_tree"

\* C4: root_packages holds a package name iff that package has no outgoing
\* dependency; it never holds a package whose dependency list is non-empty.
C4_RootsHaveNoDependencies ==
    TreeDone =>
        \A n \in PkgNames(sbom) :
            (n \in Range(result.tree.root_packages)) <=> (Succ(DocEdges(sbom), n) = {})

\* C5: on an acyclic Document, depth_analysis maps every package name to the
\* number of edges on the longest path starting at it, whatever the package order.
C5_DepthIsLongestPath ==
    (TreeDone /\ ~HasCycle(DocEdges(sbom))) =>
        \A n \in PkgNames(sbom) :
            /\ n \in DOMAIN result.tree.depth_analysis
            /\ result.tree.depth_analysis[n] = LongestPath(DocEdges(sbom), n)

\* C6: circular_dependencies is non-empty iff the name-keyed graph has a directed
\* cycle; a mutual dependency between two names yields a reported cycle holding
\* both; every cycle of the graph has one of its edges as the closing edge of a
\* reported cycle, and a cycle that shares no node with another cycle is reported
\* as itself (so node-disjoint cycles are each reported).
C6_CyclesDetected ==
    TreeDone =>
        LET E    == DocEdges(sbom)
            circ == result.tree.circular_dependencies
        IN  /\ (circ # <<>>) <=> HasCycle(E)
            /\ \A a, b \in EdgeNodes(E) :
                   (a # b /\ <<a, b>> \in E /\ <<b, a>> \in E) =>
                       \E i \in DOMAIN circ : {a, b} \subseteq Range(circ[i])
            /\ \A c \in SimpleCycles(E) :
                   /\ \E i \in DOMAIN circ :
                          \E k \in DOMAIN c :
                              /\ circ[i][Len(circ[i]) - 1] = c[k]
                              /\ circ[i][Len(circ[i])] = c[(k % Len(c)) + 1]
                   /\ (\A c2 \in SimpleCycles(E) :
                           Range(c2) \cap Range(c) # {} => IsRotation(c, c2)) =>
                       \E i \in DOMAIN circ :
                           IsRotation(c, SubSeq(circ[i], 1, Len(circ[i]) - 1))

\* C6 witness: a Document with two node-disjoint cycles, both reported.
C6_Witness ==
    /\ TreeDone
    /\ Len(result.tree.circular_dependencies) >= 2
    /\ \E c1, c2 \in SimpleCycles(DocEdges(sbom)) : Range(c1) \cap Range(c2) = {}

\* C7: tree_structure has one key for every package name of the Document, mapped
\* to that package's dependency target names in list order (an empty list for a
\* package without dependencies).
C7_TreeStructureHasEveryPackage ==
    TreeDone =>
        /\ DOMAIN result.tree.tree_structure = PkgNames(sbom)
        /\ \A n \in PkgNames(sbom) :
               result.tree.tree_structure[n] = DepNamesOf(sbom.packages, n)

(***************************************************************************)
(* Documents handed to the analyzer.  Three families: up to MaxScorePkgs   *)
(* packages, each with any subset of the scored items present; a single    *)
(* package with every combination of empty and missing name, version and   *)
(* supplier, homepage, purl; and up to two packages carrying at most       *)
(* MaxVulns vulnerabilities in all, of any severity of Severities.         *)
(***************************************************************************)
MaxScorePkgs == 2

MaxVulns == 3

Severities == {None, "HIGH", "high", "MEDIUM"}

OneDependency == <<Dependency(GhostId, "urllib3", "DEPENDS_ON")>>

OneLicense == <<License("MIT", None, None)>>

\* A package with the items of the set has present.
ScoredPackage(i, has) ==
    Package(PkgIds[i],
            IF "name" \in has THEN "flask" ELSE "",
            IF "version" \in has THEN "1.0.0" ELSE None,
            IF "description" \in has THEN "a package" ELSE None,
            IF "licenses" \in has THEN OneLicense ELSE <<>>,
            IF "dependencies" \in has THEN OneDependency ELSE <<>>,
            <<>>, None,
            IF "metadata" \in has THEN "Pallets" ELSE None,
            None, None, <<>>)

ScoredItems == {"name", "version", "description", "licenses", "dependencies", "metadata"}

VulnPackage(i, severities) ==
    Package(PkgIds[i], "flask", "1.0.0", "a package", OneLicense, <<>>,
            [j \in DOMAIN severities |-> Vulnerability("CVE-2023-1234", severities[j])],
            None, None, None, None, <<>>)

MaxLicenses == 3

\* License identifiers in ascending str order (upper case before lower case),
\* and the empty identifier.
LicenseIds == <<"Apache-2.0", "MIT", "mit">>

LicensedPackage(i, identifiers) ==
    Package(PkgIds[i], "flask", "1.0.0", "a package",
            [j \in DOMAIN identifiers |-> License(identifiers[j], None, None)],
            <<>>, <<>>, None, None, None, None, <<>>)

\* Documents of four packages with distinct names, each depending on up to
\* MaxDepsPerPkg of the other three, in any order.
DepNames == <<"flask", "requests", "urllib3", "idna">>

MaxDepsPerPkg == 2

DepLists(i) ==
    {s \in SeqsUpTo(Range(DepNames) \ {DepNames[i]}, MaxDepsPerPkg) :
        \A a, b \in DOMAIN s : a # b => s[a] # s[b]}

\* Documents of up to MaxListedPkgs packages, each with nothing but a name,
\* with everything but a version, or with everything.
MaxListedPkgs == 6

ListedVariants == {{"name"}, ScoredItems \ {"version"}, ScoredItems}

InitAnalyze ==
    /\ file = NoFile
    /\ result = NoResult
    /\ \/ \E k \in 0..MaxScorePkgs : \E has \in [1..k -> SUBSET ScoredItems] :
              sbom = PlainDoc([i \in 1..k |-> ScoredPackage(i, has[i])])
       \/ \E name \in {"", "flask"}, version, supplier, homepage, purl \in {None, "", "x"} :
              sbom = PlainDoc(<<Package("pkg1", name, version, None, <<>>, <<>>, <<>>,
                                        purl, supplier, homepage, None, <<>>)>>)
       \/ \E k \in 1..2 : \E lens \in [1..k -> 0..MaxVulns] :
              /\ SumSeq(lens) <= MaxVulns
              /\ \E flat \in [1..SumSeq(lens) -> Severities] :
                     sbom = PlainDoc(
                         [i \in 1..k |->
                             VulnPackage(i, SubSeq(flat, SumSeq(SubSeq(lens, 1, i - 1)) + 1,
                                                   SumSeq(SubSeq(lens, 1, i))))])
       \/ \E k \in 1..2 : \E lens \in [1..k -> 0..MaxLicenses] :
              /\ SumSeq(lens) <= MaxLicenses
              /\ \E flat \in [1..SumSeq(lens) -> Range(LicenseIds) \cup {""}] :
                     sbom = PlainDoc(
                         [i \in 1..k |->
                             LicensedPackage(i, SubSeq(flat, SumSeq(SubSeq(lens, 1, i - 1)) + 1,
                                                       SumSeq(SubSeq(lens, 1, i))))])
       \/ \E has \in [1..MaxListedPkgs -> ListedVariants] :
              sbom = PlainDoc([i \in 1..MaxListedPkgs |-> ScoredPackage(i, has[i])])
       \/ \E d1 \in DepLists(1), d2 \in DepLists(2), d3 \in DepLists(3), d4 \in DepLists(4) :
              sbom = TreeDoc([i \in DOMAIN DepNames |->
                                 [name |-> DepNames[i], deps |-> <<d1, d2, d3, d4>>[i]]])

\* SBOMAnalyzer.analyze(sbom_data)
Analyze ==
    /\ sbom # NoDoc
    /\ result = NoResult
    /\ \E unique_licenses \in ListsOfSet(DOMAIN _analyze_licenses(sbom)) :
           result' = [op |-> "analyze", analysis |-> analyze(sbom, unique_licenses)]
    /\ UNCHANGED <<file, sbom>>

NextAnalyze == Analyze

SpecAnalyze == InitAnalyze /\ [][NextAnalyze]_vars

AnalyzeDone == result.op = "analyze"

\* Python's str.lower() on the severity strings in use.
Lower(str) ==
    CASE str = "HIGH" -> "high"
      [] str = "MEDIUM" -> "medium"
      [] OTHER -> str

\* All vulnerabilities of the Document, in package and list order.
RECURSIVE AllVulnerabilities(_)
AllVulnerabilities(packages) ==
    IF packages = <<>> THEN <<>>
    ELSE Head(packages).vulnerabilities \o AllVulnerabilities(Tail(packages))

\* The key the claim files a vulnerability under.
SeverityKey(v) == IF v.severity = None THEN "unknown" ELSE Lower(v.severity)

\* C8: vulnerability_summary is keyed by the lower-cased severity, counts the
\* vulnerabilities without severity under "unknown", and its values sum to the
\* number of vulnerabilities of the Document.
C8_SummaryKeyedByLowerSeverity ==
    AnalyzeDone =>
        LET vs  == AllVulnerabilities(sbom.packages)
            sum == result.analysis.vulnerability_summary
        IN  /\ DOMAIN sum = {SeverityKey(vs[i]) : i \in DOMAIN vs}
            /\ \A k \in DOMAIN sum :
                   sum[k] = Cardinality({i \in DOMAIN vs : SeverityKey(vs[i]) = k})

Points(present, n) == IF present THEN n ELSE 0

Present(v) == v \notin {None, ""}

\* The points the claim awards a package.
ClaimedPoints(p) ==
      Points(Present(p.name), 20) + Points(Present(p.version), 20)
    + Points(Present(p.description), 20) + Points(Len(p.licenses) >= 1, 20)
    + Points(Len(p.dependencies) >= 1, 10)
    + Points(Present(p.supplier) \/ Present(p.homepage) \/ Present(p.purl), 10)

\* C9: the completeness score is the mean over the packages of the points
\* name 20, version 20, description 20, a license 20, a dependency 10, any of
\* supplier, homepage, purl 10; it lies in [0, 100] and is 0 (and defined) for
\* a Document without packages.
C9_CompletenessIsMeanOfPoints ==
    AnalyzeDone =>
        LET score == result.analysis.completeness_score
            ps    == sbom.packages
        IN  /\ score.den > 0
            /\ 0 <= score.num /\ score.num <= 100 * score.den
            /\ ps = <<>> => score.num = 0
            /\ ps # <<>> =>
                   score.num * Len(ps) =
                       score.den * SumSeq([i \in DOMAIN ps |-> ClaimedPoints(ps[i])])

\* C9 witness: two packages of different scores, one of them with a dependency.
C9_Witness ==
    /\ AnalyzeDone
    /\ Len(sbom.packages) = 2
    /\ ClaimedPoints(sbom.packages[1]) # ClaimedPoints(sbom.packages[2])
    /\ sbom.packages[1].dependencies # <<>>
    /\ result.analysis.completeness_score.num > 0

(***************************************************************************)
(* Input files.  A path is missing, a directory, or a file with a name (its *)
(* dot-separated components) and a content: bytes that are not UTF-8, text *)
(* that is neither JSON nor XML, an XML document (root tag, attributes) or *)
(* a JSON value.  A JSON object is a function from its keys; JSON null is  *)
(* None.  Tags and top-level JSON strings are sequences of characters.     *)
(***************************************************************************)
JObject(fields) == [t |-> "object", v |-> fields]

JArray(items) == [t |-> "array", v |-> items]

JString(chars) == [t |-> "string", v |-> chars]

JNumber == [t |-> "number", v |-> <<>>]

JNull == [t |-> "null", v |-> <<>>]

Undecodable == [kind |-> "undecodable"]

Text(text) == [kind |-> "text", text |-> text]

Xml(root, attrs) == [kind |-> "xml", root |-> root, attrs |-> attrs]

Json(value) == [kind |-> "json", value |-> value]

File(name, content) == [kind |-> "file", name |-> name, content |-> content]

MissingPath == [kind |-> "missing"]

DirectoryPath == [kind |-> "directory"]

\* What an operation returns or raises.
Return(value) == [raised |-> None, value |-> value]

Raise(exception) == [raised |-> exception, value |-> None]

\* dict.get(key, default)
Get(obj, key, default) == IF key \in DOMAIN obj THEN obj[key] ELSE default

\* str.endswith and the substring test, on character sequences
EndsWith(str, suffix) ==
    Len(str) >= Len(suffix) /\ SubSeq(str, Len(str) - Len(suffix) + 1, Len(str)) = suffix

Contains(str, sub) ==
    \E i \in 0..(Len(str) - Len(sub)) : SubSeq(str, i + 1, i + Len(sub)) = sub

LowerChar(ch) ==
    CASE ch = "A" -> "a" [] ch = "B" -> "b" [] ch = "C" -> "c" [] ch = "D" -> "d" [] ch = "I" -> "i"
      [] ch = "S" -> "s" [] ch = "V" -> "v" [] ch = "F" -> "f" [] OTHER -> ch

LowerChars(str) == [i \in DOMAIN str |-> LowerChar(str[i])]

\* The characters of the words the detector looks for.
Chars(word) ==
    CASE word = "spdxVersion" -> <<"s", "p", "d", "x", "V", "e", "r", "s", "i", "o", "n">>
      [] word = "bomFormat" -> <<"b", "o", "m", "F", "o", "r", "m", "a", "t">>
      [] word = "tagId" -> <<"t", "a", "g", "I", "d">>
      [] word = "softwareIdentity" ->
             <<"s", "o", "f", "t", "w", "a", "r", "e", "I", "d", "e", "n", "t", "i", "t", "y">>
      [] word = "SoftwareIdentity" ->
             <<"S", "o", "f", "t", "w", "a", "r", "e", "I", "d", "e", "n", "t", "i", "t", "y">>
      [] word = "SpdxDocument" -> <<"S", "p", "d", "x", "D", "o", "c", "u", "m", "e", "n", "t">>
      [] word = "spdx" -> <<"s", "p", "d", "x">>
      [] word = "bom" -> <<"b", "o", "m">>
      [] word = "cyclonedx" -> <<"c", "y", "c", "l", "o", "n", "e", "d", "x">>
      [] word = "swid" -> <<"s", "w", "i", "d">>
      [] word = "SPDX-" -> <<"S", "P", "D", "X", "-">>
      [] word = "SPDX-2.3" -> <<"S", "P", "D", "X", "-", "2", ".", "3">>
      [] word = "1." -> <<"1", ".">>
      [] word = "1.5" -> <<"1", ".", "5">>
      [] word = "2.3" -> <<"2", ".", "3">>
      [] word = "" -> <<>>

\* Path.suffix.lower(): the last component after a dot, lower-cased, with its dot.
Suffix(name) == IF Len(name) > 1 THEN name[Len(name)] ELSE ""

LowerSuffix(str) ==
    CASE str = "SPDX" -> "spdx" [] str = "CDX" -> "cdx" [] str = "JSON" -> "json"
      [] OTHER -> str

(***************************************************************************)
(* core/parser.py: SBOMParser._detect_format.                              *)
(***************************************************************************)
\* Python's "key in data" on a decoded JSON value: dict membership, list
\* membership, substring of a str; TypeError on a number, a bool or null.
KeyIn(key, data) ==
    CASE data.t = "object" -> key \in DOMAIN data.v
      [] data.t = "array"  -> key \in Range(data.v)
      [] data.t = "string" -> Contains(data.v, Chars(key))
      [] OTHER -> FALSE

\* The JSON branch with the value of bomFormat left unread.
DetectJsonAnyBomFormat(data) ==
    IF data.t \in {"number", "null"} THEN Raise("TypeError")
    ELSE IF KeyIn("spdxVersion", data) THEN Return("spdx")
    ELSE IF KeyIn("bomFormat", data) THEN Return("cyclonedx")
    ELSE IF KeyIn("tagId", data) /\ KeyIn("softwareIdentity", data) THEN Return("swid")
    ELSE Return("none")

\* The JSON branch: a format, "none" when no marker matches, or what it raises.
DetectJson(data) ==
    IF data.t \in {"number", "null"} THEN Raise("TypeError")
    ELSE IF KeyIn("spdxVersion", data) THEN Return("spdx")
    ELSE IF KeyIn("bomFormat", data) /\ data.t # "object" THEN Raise("AttributeError")
    ELSE IF KeyIn("bomFormat", data) /\ data.v["bomFormat"] = "CycloneDX" THEN Return("cyclonedx")
    ELSE IF KeyIn("tagId", data) /\ KeyIn("softwareIdentity", data) THEN Return("swid")
    ELSE Return("none")

\* The XML branch, on the root tag.
DetectXml(tag) ==
    IF EndsWith(tag, Chars("SpdxDocument")) \/ Contains(LowerChars(tag), Chars("spdx"))
    THEN "spdx"
    ELSE IF EndsWith(tag, Chars("bom")) \/ Contains(LowerChars(tag), Chars("cyclonedx"))
    THEN "cyclonedx"
    ELSE IF EndsWith(tag, Chars("SoftwareIdentity")) \/ Contains(LowerChars(tag), Chars("swid"))
    THEN "swid"
    ELSE "none"

\* Path.suffix never holds two dots, so only the one-dot entries of the lists
\* [".spdx", ".spdx.json", ".spdx.xml"], ... can match.
SpdxExtensions == {"spdx"}

CycloneDXExtensions == {"cdx", "cyclonedx", "bom"}

SwidExtensions == {"swid", "swidtag"}

\* The extension fallback and, last, the default.
DetectExtension(name) ==
    LET extension == LowerSuffix(Suffix(name))
    IN  IF extension \in SpdxExtensions THEN "spdx"
        ELSE IF extension \in CycloneDXExtensions THEN "cyclonedx"
        ELSE IF extension \in SwidExtensions THEN "swid"
        ELSE "spdx"

_detect_format(file_path) ==
    IF file_path.kind = "missing" THEN Raise("FileNotFoundError")
    ELSE IF file_path.kind = "directory" THEN Raise("IsADirectoryError")
    ELSE IF file_path.content.kind = "undecodable" THEN Raise("ValueError")
    ELSE LET content == file_path.content
             by_json == IF content.kind = "json" THEN DetectJson(content.value)
                        ELSE Return("none")
             by_xml  == IF content.kind = "xml" THEN DetectXml(content.root) ELSE "none"
         IN  IF by_json.raised # None THEN by_json
             ELSE IF by_json.value # "none" THEN by_json
             ELSE IF by_xml # "none" THEN Return(by_xml)
             ELSE Return(DetectExtension(file_path.name))

(***************************************************************************)
(* The converters.  Every value of a str-typed field is a string or None   *)
(* here, so pydantic's validation of a required str comes down to IsStr.   *)
(* datetime.now() is the parameter now of each conversion.                 *)
(***************************************************************************)
IsStr(v) == v # None

\* datetime.fromisoformat(s.replace("Z", "+00:00")); None stands for ValueError.
ParseIso(str) ==
    CASE str = "2024-01-01T00:00:00Z" -> "2024-01-01T00:00:00+00:00"
      [] OTHER -> None

\* The value of the results of converting each element, or the first failure.
AllOrRaise(results) ==
    IF \E i \in DOMAIN results : results[i].raised # None
    THEN Raise("ValidationError")
    ELSE Return([i \in DOMAIN results |-> results[i].value])

\* The loop "for ref in refs: if ref.get(type_key) == 'purl': purl = ref.get(value_key); break"
RECURSIVE FirstPurl(_, _, _)
FirstPurl(refs, type_key, value_key) ==
    IF refs = <<>> THEN None
    ELSE IF Get(Head(refs), type_key, None) = "purl" THEN Get(Head(refs), value_key, None)
    ELSE FirstPurl(Tail(refs), type_key, value_key)

(***************************************************************************)
(* core/parsers/spdx_parser.py: SPDXParser.                                *)
(***************************************************************************)
SpdxLicenses(spdx_package, key) ==
    IF Truthy(Get(spdx_package, key, None))
    THEN <<License(spdx_package[key], spdx_package[key], None)>>
    ELSE <<>>

\* dependencies and vulnerabilities stay empty ("a simplified implementation").
_convert_spdx_package(spdx_package) ==
    LET id   == Get(spdx_package, "SPDXID", Get(spdx_package, "name", None))
        name == Get(spdx_package, "name", "Unknown")
    IN  IF ~IsStr(id) \/ ~IsStr(name) THEN Raise("ValidationError")
        ELSE Return(Package(id, name,
                 Get(spdx_package, "versionInfo", None),
                 Get(spdx_package, "description", None),
                 SpdxLicenses(spdx_package, "licenseDeclared")
                     \o SpdxLicenses(spdx_package, "licenseConcluded"),
                 <<>>, <<>>,
                 FirstPurl(Get(spdx_package, "externalRefs", <<>>), "referenceType", "referenceLocator"),
                 Get(spdx_package, "supplier", None),
                 Get(spdx_package, "homepage", None),
                 Get(spdx_package, "sourceInfo", None),
                 <<>>))

SpdxRelationship(rel) ==
    [spdx_element_id         |-> Get(rel, "spdxElementId", None),
     related_spdx_element_id |-> Get(rel, "relatedSpdxElementId", None),
     relationship_type       |-> Get(rel, "relationshipType", None)]

\* created: the parsed creationInfo.created when it is truthy and parses, else now
SpdxCreated(creation_info, now) ==
    IF Truthy(Get(creation_info, "created", None)) /\ ParseIso(creation_info["created"]) # None
    THEN ParseIso(creation_info["created"]) ELSE now

\* A converter that files every DEPENDS_ON relationship under its source
\* package without looking the target up among the packages.
ConvertSpdxKeepingEveryDependsOn(data, now) ==
    LET document_name == Get(data, "documentName", "Unknown SPDX Document")
        creation_info == Get(data, "creationInfo", <<>>)
        creators      == Get(creation_info, "creators", <<>>)
        creator       == IF creators # <<>> THEN creators[1] ELSE "Unknown"
        spdx_packages == Get(data, "packages", <<>>)
        packages      == AllOrRaise([i \in DOMAIN spdx_packages |->
                                        _convert_spdx_package(spdx_packages[i])])
        rels          == Get(data, "relationships", <<>>)
        version       == Get(data, "spdxVersion", "SPDX-2.3")
        DependsOnOf(id) ==
            SelectSeq(rels, LAMBDA rel :
                Get(rel, "relationshipType", None) = "DEPENDS_ON"
                    /\ Get(rel, "spdxElementId", None) = id)
        WithDependencies(package) ==
            [package EXCEPT !.dependencies =
                [i \in DOMAIN DependsOnOf(package.id) |->
                    Dependency(DependsOnOf(package.id)[i].relatedSpdxElementId,
                               DependsOnOf(package.id)[i].relatedSpdxElementId,
                               "DEPENDS_ON")]]
    IN  IF packages.raised # None THEN packages
        ELSE IF ~IsStr(version) \/ ~IsStr(document_name) \/ ~IsStr(creator)
        THEN Raise("ValidationError")
        ELSE Return(SBOMData("spdx", version, document_name,
                 Get(data, "documentNamespace", None),
                 SpdxCreated(creation_info, now), creator,
                 [i \in DOMAIN packages.value |-> WithDependencies(packages.value[i])],
                 [i \in DOMAIN rels |-> SpdxRelationship(rels[i])],
                 [spdx_version |-> Get(data, "spdxVersion", None),
                  data_license |-> Get(data, "dataLicense", None)]))

_convert_spdx_json_to_sbom_data(data, now) ==
    LET document_name == Get(data, "documentName", "Unknown SPDX Document")
        creation_info == Get(data, "creationInfo", <<>>)
        creators      == Get(creation_info, "creators", <<>>)
        creator       == IF creators # <<>> THEN creators[1] ELSE "Unknown"
        spdx_packages == Get(data, "packages", <<>>)
        packages      == AllOrRaise([i \in DOMAIN spdx_packages |->
                                        _convert_spdx_package(spdx_packages[i])])
        rels          == Get(data, "relationships", <<>>)
        version       == Get(data, "spdxVersion", "SPDX-2.3")
    IN  IF packages.raised # None THEN packages
        ELSE IF ~IsStr(version) \/ ~IsStr(document_name) \/ ~IsStr(creator)
        THEN Raise("ValidationError")
        ELSE Return(SBOMData("spdx", version, document_name,
                 Get(data, "documentNamespace", None),
                 SpdxCreated(creation_info, now), creator,
                 packages.value,
                 [i \in DOMAIN rels |-> SpdxRelationship(rels[i])],
                 [spdx_version |-> Get(data, "spdxVersion", None),
                  data_license |-> Get(data, "dataLicense", None)]))

\* Whatever goes wrong inside parse is re-raised as ValueError.
AsValueError(outcome) == IF outcome.raised # None THEN Raise("ValueError") ELSE outcome

\* json.loads(file_path.read_text()): the decoded value, or what the two raise.
LoadJson(file_path) ==
    IF file_path.kind = "missing" THEN Raise("FileNotFoundError")
    ELSE IF file_path.kind = "directory" THEN Raise("IsADirectoryError")
    ELSE IF file_path.content.kind = "undecodable" THEN Raise("UnicodeDecodeError")
    ELSE IF file_path.content.kind # "json" THEN Raise("JSONDecodeError")
    ELSE Return(file_path.content.value)

SPDXParser_parse(file_path, now) ==
    LET loaded == LoadJson(file_path)
        data   == loaded.value
    IN  IF loaded.raised # None THEN Raise("ValueError")
        ELSE IF data.t \in {"number", "null"} THEN Raise("ValueError")
        ELSE IF ~KeyIn("spdxVersion", data) THEN Raise("ValueError")
        ELSE IF data.t # "object" THEN Raise("ValueError")
        ELSE AsValueError(_convert_spdx_json_to_sbom_data(data.v, now))

(***************************************************************************)
(* core/parsers/cyclonedx_parser.py: CycloneDXParser.                      *)
(***************************************************************************)
CdxLicenses(component) ==
    LET with_license == SelectSeq(Get(component, "licenses", <<>>),
                                  LAMBDA info : "license" \in DOMAIN info)
    IN  AllOrRaise([i \in DOMAIN with_license |->
            IF IsStr(Get(with_license[i].license, "id", None))
            THEN Return(License(with_license[i].license.id,
                                Get(with_license[i].license, "name", None),
                                Get(with_license[i].license, "url", None)))
            ELSE Raise("ValidationError")])

CdxVulnerabilities(component) ==
    LET vulns == Get(component, "vulnerabilities", <<>>)
    IN  [i \in DOMAIN vulns |->
            Vulnerability(Get(vulns[i], "id", None),
                IF Get(vulns[i], "ratings", <<>>) # <<>>
                THEN Get(vulns[i].ratings[1], "severity", None) ELSE None)]

\* {hash.get("alg"): hash.get("content") for hash in hashes}, a Dict[str, str]
CdxChecksums(component) ==
    LET hashes == Get(component, "hashes", <<>>)
    IN  IF \E i \in DOMAIN hashes :
               ~IsStr(Get(hashes[i], "alg", None)) \/ ~IsStr(Get(hashes[i], "content", None))
        THEN Raise("ValidationError")
        ELSE Return([alg \in {hashes[i].alg : i \in DOMAIN hashes} |->
                 hashes[CHOOSE i \in DOMAIN hashes :
                     hashes[i].alg = alg /\ \A j \in DOMAIN hashes : hashes[j].alg = alg => j <= i].content])

\* dependencies stay empty ("handled at the document level").
_convert_cyclonedx_component(component) ==
    LET id        == Get(component, "bomRef", Get(component, "name", None))
        name      == Get(component, "name", None)
        licenses  == CdxLicenses(component)
        checksums == CdxChecksums(component)
        refs      == Get(component, "externalReferences", <<>>)
    IN  IF licenses.raised # None THEN licenses
        ELSE IF ~IsStr(id) \/ ~IsStr(name) THEN Raise("ValidationError")
        ELSE IF checksums.raised # None THEN checksums
        ELSE Return(Package(id, name,
                 Get(component, "version", None),
                 Get(component, "description", None),
                 licenses.value, <<>>, CdxVulnerabilities(component),
                 FirstPurl(refs, "type", "url"),
                 Get(component, "publisher", None),
                 IF refs # <<>> THEN Get(refs[1], "url", None) ELSE None,
                 None, checksums.value))

\* One {ref, dependsOn} record per element of each entry's dependsOn list.
RECURSIVE CdxRelationships(_)
CdxRelationships(dependencies) ==
    IF dependencies = <<>> THEN <<>>
    ELSE LET rel        == Head(dependencies)
             depends_on == Get(rel, "dependsOn", <<>>)
         IN  [i \in DOMAIN depends_on |->
                 [ref |-> Get(rel, "ref", ""), dependsOn |-> depends_on[i]]]
             \o CdxRelationships(Tail(dependencies))

\* created: metadata["timestamp"] when the key is there and parses, else now;
\* a null timestamp has no replace().
CdxCreated(metadata, now) ==
    IF "timestamp" \notin DOMAIN metadata THEN Return(now)
    ELSE IF metadata["timestamp"] = None THEN Raise("AttributeError")
    ELSE IF ParseIso(metadata["timestamp"]) # None THEN Return(ParseIso(metadata["timestamp"]))
    ELSE Return(now)

_convert_cyclonedx_to_sbom_data(data, now) ==
    LET metadata      == Get(data, "metadata", <<>>)
        spec_version  == Get(data, "specVersion", "1.5")
        tools         == Get(metadata, "tools", <<>>)
        creator       == IF tools # <<>> THEN Get(tools[1], "name", "Unknown") ELSE "Unknown"
        document_name == Get(Get(metadata, "component", <<>>), "name", "CycloneDX BOM")
        components    == Get(data, "components", <<>>)
        packages      == AllOrRaise([i \in DOMAIN components |->
                                        _convert_cyclonedx_component(components[i])])
        created       == CdxCreated(metadata, now)
    IN  IF created.raised # None THEN created
        ELSE IF packages.raised # None THEN packages
        ELSE IF ~IsStr(spec_version) \/ ~IsStr(document_name) \/ ~IsStr(creator)
        THEN Raise("ValidationError")
        ELSE Return(SBOMData("cyclonedx", spec_version, document_name, None,
                 created.value, creator,
                 packages.value,
                 CdxRelationships(Get(data, "dependencies", <<>>)),
                 [bomFormat    |-> Get(data, "bomFormat", "CycloneDX"),
                  specVersion  |-> spec_version,
                  serialNumber |-> Get(metadata, "serialNumber", None),
                  version      |-> Get(metadata, "version", None)]))

\* No marker is required: any JSON object converts.
CycloneDXParser_parse(file_path, now) ==
    LET loaded == LoadJson(file_path)
        data   == loaded.value
    IN  IF loaded.raised # None THEN Raise("ValueError")
        ELSE IF data.t # "object" THEN Raise("ValueError")
        ELSE AsValueError(_convert_cyclonedx_to_sbom_data(data.v, now))

(***************************************************************************)
(* core/parsers/swid_parser.py: SWIDParser.                                *)
(***************************************************************************)
\* Both _parse_swid_xml (on the root's attributes) and _parse_swid_json (on
\* the softwareIdentity object) build the Document the same way.
SwidDocument(identity, now) ==
    LET tag_id == Get(identity, "tagId", "")
        name   == Get(identity, "name", "")
    IN  IF ~IsStr(tag_id) \/ ~IsStr(name) THEN Raise("ValidationError")
        ELSE Return(SBOMData("swid", "1.0", name, None, now, "SWID Generator",
                 <<Package(tag_id, name, Get(identity, "version", ""),
                           Get(identity, "description", ""), <<>>, <<>>, <<>>, None,
                           Get(identity, "regid", ""), None, None, <<>>)>>,
                 <<>>,
                 [tagId         |-> tag_id,
                  regid         |-> Get(identity, "regid", None),
                  versionScheme |-> Get(identity, "versionScheme", None)]))

_parse_swid_xml(root, now) == SwidDocument(root.attrs, now)

\* A plausible slip: tagId, name and version are read from the top level.
ParseSwidJsonFromTopLevel(data, now) == SwidDocument(data, now)

_parse_swid_json(data, now) == SwidDocument(Get(data, "softwareIdentity", <<>>), now)

\* XML first, JSON when the XML parse fails.
SWIDParser_parse(file_path, now) ==
    IF file_path.kind = "file" /\ file_path.content.kind = "xml"
    THEN AsValueError(_parse_swid_xml(file_path.content, now))
    ELSE LET loaded == LoadJson(file_path)
             data   == loaded.value
         IN  IF loaded.raised # None THEN Raise("ValueError")
             ELSE IF data.t # "object" THEN Raise("ValueError")
             ELSE AsValueError(_parse_swid_json(data.v, now))

(***************************************************************************)
(* core/parser.py: SBOMParser.parse_file.                                  *)
(***************************************************************************)
parse_file(file_path, now) ==
    IF file_path.kind = "missing" THEN Raise("FileNotFoundError")
    ELSE IF file_path.kind # "file" THEN Raise("ValueError")
    ELSE LET format_type == _detect_format(file_path)
         IN  IF format_type.raised # None THEN format_type
             ELSE IF format_type.value = "spdx"
             THEN AsValueError(SPDXParser_parse(file_path, now))
             ELSE IF format_type.value = "cyclonedx"
             THEN AsValueError(CycloneDXParser_parse(file_path, now))
             ELSE AsValueError(SWIDParser_parse(file_path, now))

(***************************************************************************)
(* The files handed to the parser.  A JSON document is the record of its   *)
(* top-level keys; Restrict keeps the keys a variant of it has.            *)
(***************************************************************************)
MaxDocPkgs == 3

MaxRels == 2

Restrict(obj, keys) == [key \in keys |-> obj[key]]

DocNames == <<"flask", "requests", "urllib3", "click", "jinja2">>

SpdxIds ==
    <<"SPDXRef-Package-flask", "SPDXRef-Package-requests", "SPDXRef-Package-urllib3",
      "SPDXRef-Package-click", "SPDXRef-Package-jinja2">>

Purls ==
    <<"pkg:pypi/flask@3.0.0", "pkg:pypi/requests@2.31.0", "pkg:pypi/urllib3@2.0.0",
      "pkg:pypi/click@8.1.0", "pkg:pypi/jinja2@3.1.0">>

RelationshipTypes == {"DEPENDS_ON", "CONTAINS"}

Clock == {"2025-01-01T09:00:00", "2025-01-01T09:00:01"}

CreationInfo == [creators |-> <<"Tool: Test">>, created |-> "2024-01-01T00:00:00Z"]

SpdxPackageJson(i) ==
    [SPDXID |-> SpdxIds[i], name |-> DocNames[i], versionInfo |-> "1.0.0",
     licenseDeclared |-> "MIT"]

SpdxRelationshipJson(src, tgt, type) ==
    [spdxElementId |-> SpdxIds[src], relatedSpdxElementId |-> SpdxIds[tgt],
     relationshipType |-> type]

\* k packages and the relationships src[i] -type[i]-> tgt[i]
SpdxDocJson(k, src, tgt, type) ==
    [spdxVersion |-> "SPDX-2.3", documentName |-> "Test SBOM",
     documentNamespace |-> "https://example.com/test", creationInfo |-> CreationInfo,
     packages |-> [i \in 1..k |-> SpdxPackageJson(i)],
     relationships |-> [i \in DOMAIN src |-> SpdxRelationshipJson(src[i], tgt[i], type[i])]]

SpdxFileName == <<"test", "spdx", "json">>

CdxFileName == <<"test", "cyclonedx", "json">>

PlainJsonName == <<"test", "json">>

\* One SPDX package and one top level, with any of their keys left out.
SpdxVariantPackage ==
    [SPDXID |-> SpdxIds[1], name |-> DocNames[1], versionInfo |-> "3.0.0",
     licenseDeclared |-> "BSD-3-Clause", licenseConcluded |-> "NONE",
     externalRefs |-> <<[referenceType |-> "purl", referenceLocator |-> Purls[1]]>>]

SpdxCreationInfos ==
    {CreationInfo, [created |-> "yesterday"], [creators |-> <<>>]}

SpdxVariantJson(top_keys, package_keys, creation_info) ==
    Restrict([spdxVersion |-> "SPDX-2.3", documentName |-> "Test SBOM",
              creationInfo |-> creation_info,
              packages |-> <<Restrict(SpdxVariantPackage, package_keys)>>], top_keys)

CdxComponentJson(i) ==
    [type |-> "library", name |-> DocNames[i], version |-> "1.0.0", purl |-> Purls[i]]

\* The dependsOn list of entry i: its slice of the flat list of targets.
RECURSIVE CdxDependenciesJson(_, _, _)
CdxDependenciesJson(ref, lens, flat) ==
    IF ref = <<>> THEN <<>>
    ELSE <<[ref |-> Purls[Head(ref)],
            dependsOn |-> [j \in 1..Head(lens) |-> Purls[flat[j]]]]>>
         \o CdxDependenciesJson(Tail(ref), Tail(lens),
                                SubSeq(flat, Head(lens) + 1, Len(flat)))

CdxMetadata ==
    [timestamp |-> "2024-01-01T00:00:00Z",
     component |-> [type |-> "application", name |-> "test-app", version |-> "1.0.0"]]

CdxDocJson(k, ref, lens, flat) ==
    [bomFormat |-> "CycloneDX", specVersion |-> "1.5", metadata |-> CdxMetadata,
     components |-> [i \in 1..k |-> CdxComponentJson(i)],
     dependencies |-> CdxDependenciesJson(ref, lens, flat)]

CdxVariantComponent ==
    [bomRef |-> Purls[1], name |-> DocNames[1], version |-> "3.0.0",
     licenses |-> <<[license |-> [id |-> "BSD-3-Clause", name |-> "BSD 3-Clause License"]],
                    [license |-> [name |-> "Custom"]],
                    [expression |-> "MIT OR Apache-2.0"]>>,
     vulnerabilities |-> <<[id |-> "CVE-2023-1234", ratings |-> <<[severity |-> "HIGH"]>>],
                           [id |-> "CVE-2023-9999"]>>,
     externalReferences |-> <<[type |-> "website", url |-> "https://example.com"],
                              [type |-> "purl", url |-> Purls[1]]>>,
     hashes |-> <<[alg |-> "SHA-256", content |-> "ab12"]>>]

\* The licence without an id is the second of the component's licences.
CdxVariantLicenses == {<<1>>, <<1, 2>>, <<1, 3>>}

CdxMetadatas ==
    {CdxMetadata, [timestamp |-> None], [timestamp |-> "yesterday", tools |-> <<[vendor |-> "x"]>>],
     [tools |-> <<[name |-> "cyclonedx-py"]>>]}

\* A hash entry with both of its keys, without alg, without content.
CdxVariantHashes ==
    {<<[alg |-> "SHA-256", content |-> "ab12"]>>, <<[content |-> "ab12"]>>,
     <<[alg |-> "SHA-256"]>>}

CdxVariantJson(top_keys, component_keys, licences, hashes, metadata) ==
    Restrict([bomFormat |-> "CycloneDX", specVersion |-> "1.5", metadata |-> metadata,
              components |-> <<Restrict(
                  [CdxVariantComponent EXCEPT
                      !.licenses = [i \in DOMAIN licences |-> CdxVariantComponent.licenses[licences[i]]],
                      !.hashes = hashes],
                  component_keys)>>], top_keys)

\* Components with a name and a version and neither bomRef nor purl.
CdxPlainComponentsJson(names, versions) ==
    [bomFormat |-> "CycloneDX", specVersion |-> "1.5", metadata |-> CdxMetadata,
     components |-> [i \in DOMAIN names |->
                        [type |-> "library", name |-> names[i], version |-> versions[i]]],
     dependencies |-> <<>>]

SwidIdentity ==
    [tagId |-> "example-app-1.0", name |-> "Example App", version |-> "1.0.0",
     regid |-> "example.com"]

SwidFileName == <<"test", "swid">>

\* A SWID JSON document of one softwareIdentity with tagId, name and version.
SwidDemoJson == [softwareIdentity |-> [tagId |-> "t1", name |-> "demo", version |-> "1.0"]]

\* What a file can hold when it is no SBOM at all, or barely one.
DetectionNames ==
    {<<"a">>, <<"a", "txt">>, <<"a", "json">>, <<"a", "xml">>, <<"a", "spdx">>,
     <<"a", "SPDX">>, <<"a", "spdx", "json">>, <<"a", "cdx">>, <<"a", "cyclonedx">>,
     <<"a", "bom">>, <<"a", "swid">>, <<"a", "swidtag">>}

DetectionObjects ==
    {[not |-> "spdx"], [spdxVersion |-> "SPDX-2.3"], [bomFormat |-> "CycloneDX"],
     [bomFormat |-> "Other"], [tagId |-> "t", softwareIdentity |-> SwidIdentity],
     [tagId |-> "t"], [softwareIdentity |-> SwidIdentity],
     [spdxVersion |-> "SPDX-2.3", bomFormat |-> "CycloneDX"]}

DetectionArrays ==
    {<<>>, <<"spdxVersion">>, <<"bomFormat">>, <<"tagId", "softwareIdentity">>, <<"x">>}

DetectionStrings == {<<"x">>, Chars("spdxVersion"), Chars("bomFormat"), Chars("tagId")}

DetectionTags ==
    {Chars("SpdxDocument"), Chars("bom"), <<"s">> \o Chars("bom"), Chars("SoftwareIdentity"),
     <<"r", "o", "o", "t">>, <<"S", "W", "I", "D">>}

InitParse ==
    /\ sbom = NoDoc
    /\ result = NoResult
    /\ \/ file \in {MissingPath, DirectoryPath}
       \/ \E name \in DetectionNames :
              \/ file = File(name, Undecodable)
              \/ \E text \in {"", "not an sbom"} : file = File(name, Text(text))
              \/ file = File(name, Json(JNumber))
              \/ file = File(name, Json(JNull))
              \/ file = File(name, Json(JObject(<<>>)))
              \/ \E fields \in DetectionObjects : file = File(name, Json(JObject(fields)))
              \/ \E items \in DetectionArrays : file = File(name, Json(JArray(items)))
              \/ \E chars \in DetectionStrings : file = File(name, Json(JString(chars)))
              \/ \E tag \in DetectionTags : file = File(name, Xml(tag, <<>>))
       \/ \E k \in 0..MaxDocPkgs, n \in 0..MaxRels :
              \E src \in [1..n -> 1..MaxDocPkgs], tgt \in [1..n -> 1..MaxDocPkgs],
                 type \in [1..n -> RelationshipTypes] :
                  file = File(SpdxFileName, Json(JObject(SpdxDocJson(k, src, tgt, type))))
       \/ \E top_keys \in SUBSET {"spdxVersion", "documentName", "creationInfo", "packages"},
             package_keys \in SUBSET DOMAIN SpdxVariantPackage,
             creation_info \in SpdxCreationInfos :
              file = File(SpdxFileName,
                          Json(JObject(SpdxVariantJson(top_keys, package_keys, creation_info))))
       \/ \E k \in 0..MaxDocPkgs, e \in 0..MaxRels :
              \E ref \in [1..e -> 1..MaxDocPkgs], lens \in [1..e -> 0..MaxRels] :
                  /\ SumSeq(lens) <= MaxRels
                  /\ \E flat \in [1..SumSeq(lens) -> 1..MaxDocPkgs] :
                         file = File(CdxFileName, Json(JObject(CdxDocJson(k, ref, lens, flat))))
       \/ \E top_keys \in SUBSET {"bomFormat", "specVersion", "metadata", "components"},
             component_keys \in SUBSET DOMAIN CdxVariantComponent,
             licences \in CdxVariantLicenses, hashes \in CdxVariantHashes,
             metadata \in CdxMetadatas :
              \E name \in {CdxFileName, PlainJsonName} :
                  file = File(name, Json(JObject(
                      CdxVariantJson(top_keys, component_keys, licences, hashes, metadata))))
       \/ \E names \in [1..2 -> {DocNames[1], DocNames[2]}],
             versions \in [1..2 -> {"3.0.0", "2.31.0"}] :
              file = File(CdxFileName, Json(JObject(CdxPlainComponentsJson(names, versions))))
       \/ \E keys \in SUBSET DOMAIN SwidIdentity :
              \/ file = File(SwidFileName, Xml(Chars("SoftwareIdentity"), Restrict(SwidIdentity, keys)))
              \/ \E top_keys \in SUBSET {"tagId", "softwareIdentity"} :
                     file = File(SwidFileName, Json(JObject(Restrict(
                         [tagId |-> SwidIdentity.tagId,
                          softwareIdentity |-> Restrict(SwidIdentity, keys)], top_keys))))
       \/ file = File(SwidFileName, Json(JObject(SwidDemoJson)))

\* What a parse leaves behind: the Document, or nothing when it raised.
Parsed(operation, outcome) ==
    /\ result' = [op |-> operation, raised |-> outcome.raised, format |-> None]
    /\ sbom' = IF outcome.raised = None THEN outcome.value ELSE NoDoc
    /\ UNCHANGED file

DetectFormat ==
    /\ file # NoFile /\ result = NoResult
    /\ LET outcome == _detect_format(file)
       IN  result' = [op |-> "_detect_format", raised |-> outcome.raised,
                      format |-> outcome.value]
    /\ UNCHANGED <<file, sbom>>

ParseFile ==
    /\ file # NoFile /\ result = NoResult
    /\ \E now \in Clock : Parsed("parse_file", parse_file(file, now))

SPDXParse ==
    /\ file # NoFile /\ result = NoResult
    /\ \E now \in Clock : Parsed("SPDXParser.parse", SPDXParser_parse(file, now))

CycloneDXParse ==
    /\ file # NoFile /\ result = NoResult
    /\ \E now \in Clock : Parsed("CycloneDXParser.parse", CycloneDXParser_parse(file, now))

SWIDParse ==
    /\ file # NoFile /\ result = NoResult
    /\ \E now \in Clock : Parsed("SWIDParser.parse", SWIDParser_parse(file, now))

ConverterOperations == {"SPDXParser.parse", "CycloneDXParser.parse", "SWIDParser.parse"}

\* parse of the converter named by the operation
Convert(operation, file_path, now) ==
    CASE operation = "SPDXParser.parse" -> SPDXParser_parse(file_path, now)
      [] operation = "CycloneDXParser.parse" -> CycloneDXParser_parse(file_path, now)
      [] operation = "SWIDParser.parse" -> SWIDParser_parse(file_path, now)

\* The same converter is called on the same file once more, at some time.
ConvertAgain ==
    /\ result.op \in ConverterOperations
    /\ \E now \in Clock : Parsed(result.op, Convert(result.op, file, now))

NextParse ==
    DetectFormat \/ ParseFile \/ SPDXParse \/ CycloneDXParse \/ SWIDParse \/ ConvertAgain

SpecParse == InitParse /\ [][NextParse]_vars

\* The detector alone on the file.
NextDetect == DetectFormat

SpecDetect == InitParse /\ [][NextDetect]_vars

\* The SPDX converter alone on the file, called once or again.
NextSpdx == SPDXParse \/ ConvertAgain

SpecSpdx == InitParse /\ [][NextSpdx]_vars

\* The SWID converter alone on the file, called once or again.
NextSwid == SWIDParse \/ ConvertAgain

SpecSwid == InitParse /\ [][NextSwid]_vars

(***************************************************************************)
(* Claims about detection and conversion, stated on the file that was read *)
(* and on what the operation left behind.                                  *)
(***************************************************************************)
IsJsonObjectFile ==
    /\ file.kind = "file"
    /\ file.content.kind = "json"
    /\ file.content.value.t = "object"

FileJson == file.content.value.v

Succeeded(operation) == result.op = operation /\ result.raised = None

Failed(operation) == result.op = operation /\ result.raised # None /\ sbom = NoDoc

\* The number of dependency edges, summed over the packages of the Document.
DependencyEdgeCount == SumSeq([i \in DOMAIN sbom.packages |-> Len(sbom.packages[i].dependencies)])

InputSpdxIds ==
    {Get(FileJson.packages[i], "SPDXID", None) : i \in DOMAIN FileJson.packages} \ {None}

\* The relationships of type DEPENDS_ON both of whose ends name packages.
PackageDependsOn ==
    LET rels == Get(FileJson, "relationships", <<>>)
    IN  {i \in DOMAIN rels :
            /\ Get(rels[i], "relationshipType", None) = "DEPENDS_ON"
            /\ Get(rels[i], "spdxElementId", None) \in InputSpdxIds
            /\ Get(rels[i], "relatedSpdxElementId", None) \in InputSpdxIds}

\* C1: SPDX conversion turns every DEPENDS_ON relationship between two packages
\* of the document into exactly one Dependency on the source package, carrying
\* the target package's name, so the dependency edges summed over all packages
\* are as many as those relationships.
C1_SpdxDependsOnBecomesEdges ==
    (Succeeded("SPDXParser.parse") /\ "packages" \in DOMAIN FileJson) =>
        LET rels == FileJson.relationships
        IN  /\ Len(sbom.packages) = Len(FileJson.packages)
            /\ DependencyEdgeCount = Cardinality(PackageDependsOn)
            /\ \A r \in PackageDependsOn :
                   \E i \in DOMAIN sbom.packages :
                       /\ sbom.packages[i].id = rels[r].spdxElementId
                       /\ \E d \in DOMAIN sbom.packages[i].dependencies,
                             j \in DOMAIN sbom.packages :
                              /\ sbom.packages[j].id = rels[r].relatedSpdxElementId
                              /\ sbom.packages[i].dependencies[d].package_name
                                     = sbom.packages[j].name

\* A dependencies entry's ref matches a component by its purl or its bomRef.
RefMatches(ref, component) ==
    ref \in ({Get(component, "purl", None), Get(component, "bomRef", None)} \ {None})

\* The dependsOn elements of the entries whose ref matches the component.
DependsOnCount(component) ==
    LET entries == Get(FileJson, "dependencies", <<>>)
    IN  SumSeq([e \in DOMAIN entries |->
                   IF RefMatches(Get(entries[e], "ref", None), component)
                   THEN Len(Get(entries[e], "dependsOn", <<>>)) ELSE 0])

\* C2: CycloneDX conversion gives each package one outgoing Dependency per
\* element of the dependsOn list of every dependencies entry whose ref matches
\* it, whether or not the element matches a component; an entry whose ref
\* matches no package adds nothing and is no error.
C2_CycloneDxDependsOnBecomesEdges ==
    (Succeeded("CycloneDXParser.parse") /\ "components" \in DOMAIN FileJson) =>
        /\ Len(sbom.packages) = Len(FileJson.components)
        /\ \A i \in DOMAIN sbom.packages :
               Len(sbom.packages[i].dependencies) = DependsOnCount(FileJson.components[i])

\* The rules of detection: an extension, a JSON marker, an XML root.
ExtensionRuleMatches(name) ==
    \E i \in 2..Len(name) :
        LowerSuffix(name[i]) \in {"spdx", "cdx", "cyclonedx", "bom", "swid", "swidtag"}

JsonMarkerMatches(content) ==
    /\ content.kind = "json"
    /\ content.value.t = "object"
    /\ \/ "spdxVersion" \in DOMAIN content.value.v
       \/ Get(content.value.v, "bomFormat", None) = "CycloneDX"
       \/ {"tagId", "softwareIdentity"} \subseteq DOMAIN content.value.v

XmlRootRuleMatches(content) ==
    /\ content.kind = "xml"
    /\ \/ Contains(LowerChars(content.root), Chars("spdx"))
       \/ Contains(LowerChars(content.root), Chars("cyclonedx"))
       \/ EndsWith(content.root, Chars("bom"))
       \/ Contains(LowerChars(content.root), Chars("swid"))
       \/ EndsWith(content.root, Chars("SoftwareIdentity"))

NoRuleMatches ==
    /\ file.kind = "file"
    /\ file.content.kind # "undecodable"
    /\ ~ExtensionRuleMatches(file.name)
    /\ ~JsonMarkerMatches(file.content)
    /\ ~XmlRootRuleMatches(file.content)

\* C3: detection fails whenever neither the extension rule, nor a JSON marker,
\* nor an XML root rule matches (empty content, JSON without a marker, JSON that
\* is no object); it returns no format then, and never SPDX by default.
C3_DetectionNeverDefaults ==
    (result.op = "_detect_format" /\ NoRuleMatches) =>
        (result.raised # None /\ result.format = None)

\* C10: each converter fails and produces no Document when its required
\* top-level marker is absent: the SPDX converter without spdxVersion, the
\* CycloneDX converter without bomFormat.
C10_ConvertersRequireTheirMarker ==
    /\ (result.op = "SPDXParser.parse" /\ IsJsonObjectFile
            /\ "spdxVersion" \notin DOMAIN FileJson) => Failed("SPDXParser.parse")
    /\ (result.op = "CycloneDXParser.parse" /\ IsJsonObjectFile
            /\ "bomFormat" \notin DOMAIN FileJson) => Failed("CycloneDXParser.parse")

\* The input lacks nothing but optional fields: the format's marker is there,
\* every package has its identity, and no value that is there is null.
OnlyOptionalFieldsMissing(operation) ==
    /\ IsJsonObjectFile
    /\ CASE operation = "SPDXParser.parse" ->
                /\ "spdxVersion" \in DOMAIN FileJson
                /\ \A i \in DOMAIN Get(FileJson, "packages", <<>>) :
                       {"SPDXID", "name"} \subseteq DOMAIN FileJson.packages[i]
         [] operation = "CycloneDXParser.parse" ->
                /\ "bomFormat" \in DOMAIN FileJson
                /\ Get(Get(FileJson, "metadata", <<>>), "timestamp", "") # None
                /\ \A i \in DOMAIN Get(FileJson, "components", <<>>) :
                       "name" \in DOMAIN FileJson.components[i]
         [] operation = "SWIDParser.parse" -> "softwareIdentity" \in DOMAIN FileJson
         [] OTHER -> FALSE

\* C11: no converter raises on input whose only deficiency is a missing
\* optional field (a CycloneDX license with a name and no id, a hash entry
\* without alg or content, an SPDX package without versionInfo, description or
\* licenses): conversion succeeds.
C11_MissingOptionalFieldsNeverRaise ==
    \A operation \in {"SPDXParser.parse", "CycloneDXParser.parse", "SWIDParser.parse"} :
        (result.op = operation /\ OnlyOptionalFieldsMissing(operation)) =>
            Succeeded(operation)

\* C12: conversion is idempotent: converting the same content twice with the
\* same converter, at any two points in time, yields the same Document, its
\* creation timestamp included, also when the input carries no timestamp or an
\* unparseable one.
C12_ConversionIsIdempotent ==
    [][(result.op \in ConverterOperations /\ result'.op = result.op
            /\ result.raised = None /\ result'.raised = None) => sbom' = sbom]_vars

\* The id a component without bomRef and purl is to get: pkg:{name}@{version}
SynthesizedId(component) == "pkg:" \o component.name \o "@" \o component.version

\* Two components that the input itself tells apart.
DistinctComponents(a, b) ==
    \/ Get(a, "bomRef", None) # Get(b, "bomRef", None)
    \/ Get(a, "purl", None) # Get(b, "purl", None)
    \/ Get(a, "name", None) # Get(b, "name", None)
    \/ Get(a, "version", None) # Get(b, "version", None)

\* C13: the package ids of a converted Document are pairwise distinct; a
\* CycloneDX component without bomRef and purl gets the id pkg:{name}@{version},
\* so two components of one name and different versions do not share an id.
C13_PackageIdsAreDistinct ==
    (Succeeded("CycloneDXParser.parse") /\ "components" \in DOMAIN FileJson) =>
        LET components == FileJson.components
        IN  /\ \A i \in DOMAIN components :
                   ({"name", "version"} \subseteq DOMAIN components[i]
                        /\ DOMAIN components[i] \cap {"bomRef", "purl"} = {}) =>
                       sbom.packages[i].id = SynthesizedId(components[i])
            /\ \A i, j \in DOMAIN components :
                   (i # j /\ DistinctComponents(components[i], components[j])) =>
                       sbom.packages[i].id # sbom.packages[j].id

\* The DEPENDS_ON relationships from a package to an id that names no package.
DanglingDependsOn ==
    LET rels == Get(FileJson, "relationships", <<>>)
    IN  {i \in DOMAIN rels :
            /\ Get(rels[i], "relationshipType", None) = "DEPENDS_ON"
            /\ Get(rels[i], "spdxElementId", None) \in InputSpdxIds
            /\ Get(rels[i], "relatedSpdxElementId", None) \notin InputSpdxIds}

SpdxWithDanglingDependsOn ==
    /\ result.op = "SPDXParser.parse"
    /\ OnlyOptionalFieldsMissing("SPDXParser.parse")
    /\ "packages" \in DOMAIN FileJson
    /\ DanglingDependsOn # {}

\* C14: SPDX conversion of a document with a DEPENDS_ON relationship whose
\* target id matches no package succeeds, and the source package gets no
\* dependency edge for that relationship.
C14_UnknownTargetIsDropped ==
    SpdxWithDanglingDependsOn =>
        /\ Succeeded("SPDXParser.parse")
        /\ \A r \in DanglingDependsOn :
               \A i \in DOMAIN sbom.packages :
                   sbom.packages[i].id = FileJson.relationships[r].spdxElementId =>
                       \A d \in DOMAIN sbom.packages[i].dependencies :
                           sbom.packages[i].dependencies[d].package_id
                               # FileJson.relationships[r].relatedSpdxElementId

\* C14 witness: such a document was converted, next to a relationship between
\* two of its packages.
C14_Witness ==
    /\ SpdxWithDanglingDependsOn
    /\ Succeeded("SPDXParser.parse")
    /\ PackageDependsOn # {}
    /\ Len(sbom.packages) >= 2

\* The format whose extension list holds the file's extension, or "none".
ExtensionFormat(name) ==
    LET extension == LowerSuffix(Suffix(name))
    IN  CASE extension \in {"spdx"} -> "spdx"
          [] extension \in {"cdx", "cyclonedx", "bom"} -> "cyclonedx"
          [] extension \in {"swid", "swidtag"} -> "swid"
          [] OTHER -> "none"

\* The format of the JSON marker of an object, or "none".
JsonMarkerFormat(content) ==
    IF content.kind # "json" \/ content.value.t # "object" THEN "none"
    ELSE IF "spdxVersion" \in DOMAIN content.value.v THEN "spdx"
    ELSE IF Get(content.value.v, "bomFormat", None) = "CycloneDX" THEN "cyclonedx"
    ELSE IF {"tagId", "softwareIdentity"} \subseteq DOMAIN content.value.v THEN "swid"
    ELSE "none"

\* The format of the XML root, or "none".
XmlRootFormat(content) ==
    IF content.kind # "xml" THEN "none"
    ELSE IF Contains(LowerChars(content.root), Chars("spdx")) THEN "spdx"
    ELSE IF Contains(LowerChars(content.root), Chars("cyclonedx"))
                \/ EndsWith(content.root, Chars("bom")) THEN "cyclonedx"
    ELSE IF Contains(LowerChars(content.root), Chars("swid"))
                \/ EndsWith(content.root, Chars("SoftwareIdentity")) THEN "swid"
    ELSE "none"

ContentFormat(content) ==
    IF JsonMarkerFormat(content) # "none" THEN JsonMarkerFormat(content)
    ELSE XmlRootFormat(content)

DetectedFile ==
    /\ result.op = "_detect_format"
    /\ file.kind = "file"
    /\ file.content.kind # "undecodable"

\* C15: detection applies the extension rule before the content rules: when
\* the extension is in one format's list and the content carries another
\* format's JSON marker or XML root, the format of the extension is returned.
C15_ExtensionBeforeContent ==
    (DetectedFile /\ ExtensionFormat(file.name) # "none"
        /\ ContentFormat(file.content) \notin {"none", ExtensionFormat(file.name)}) =>
            (result.raised = None /\ result.format = ExtensionFormat(file.name))

JsonObjectWithoutExtension ==
    /\ DetectedFile
    /\ IsJsonObjectFile
    /\ ExtensionFormat(file.name) = "none"

\* C16: for a JSON object in a file whose extension matches no format,
\* detection returns SPDX when key spdxVersion is there, otherwise CycloneDX when
\* bomFormat equals "CycloneDX", otherwise SWID when both tagId and
\* softwareIdentity are keys; another bomFormat value does not select CycloneDX
\* and one of the two SWID keys alone does not select SWID.
C16_JsonMarkersInOrder ==
    JsonObjectWithoutExtension =>
        /\ JsonMarkerFormat(file.content) # "none" =>
               (result.raised = None /\ result.format = JsonMarkerFormat(file.content))
        /\ result.format = "cyclonedx" => Get(FileJson, "bomFormat", None) = "CycloneDX"
        /\ result.format = "swid" => {"tagId", "softwareIdentity"} \subseteq DOMAIN FileJson

\* C16 witness: detection ran on an object whose bomFormat is not "CycloneDX".
C16_Witness ==
    /\ JsonObjectWithoutExtension
    /\ "bomFormat" \in DOMAIN FileJson
    /\ FileJson.bomFormat # "CycloneDX"
    /\ result.format # "cyclonedx"

(***************************************************************************)
(* core/package_checker.py: PackageChecker.  Names and queries are         *)
(* sequences of characters here, so that lower() and the similarity of     *)
(* difflib are computed and not assumed.                                   *)
(***************************************************************************)
\* Code points of the characters in use, for the comparison of str values.
CharCode(ch) == CASE ch = "A" -> 65 [] ch = "a" -> 97 [] ch = "b" -> 98 [] OTHER -> 0

\* x < y on str
RECURSIVE StrLess(_, _)
StrLess(x, y) ==
    IF y = <<>> THEN FALSE
    ELSE IF x = <<>> THEN TRUE
    ELSE IF Head(x) # Head(y) THEN CharCode(Head(x)) < CharCode(Head(y))
    ELSE StrLess(Tail(x), Tail(y))

\* The length of the common run of a from i and b from j, inside a[..ahi], b[..bhi].
RECURSIVE CommonRun(_, _, _, _, _, _)
CommonRun(a, b, i, j, ahi, bhi) ==
    IF i > ahi \/ j > bhi THEN 0
    ELSE IF a[i] # b[j] THEN 0
    ELSE 1 + CommonRun(a, b, i + 1, j + 1, ahi, bhi)

\* The element of a set of one element: The({F(x) : x \in {e}}) is F(e), with e
\* computed once.
The(S) == CHOOSE x \in S : TRUE

\* The matching blocks of a[alo..ahi] and b[blo..bhi], by their starts.
Blocks(a, b, alo, ahi, blo, bhi) ==
    {[i |-> c[1], j |-> c[2], size |-> CommonRun(a, b, c[1], c[2], ahi, bhi)] :
        c \in (alo..ahi) \X (blo..bhi)}

\* A longest block, the one starting earliest in a and then earliest in b.
LongestBlock(blocks, alo, blo) ==
    IF \A m \in blocks : m.size = 0 THEN [i |-> alo, j |-> blo, size |-> 0]
    ELSE CHOOSE m \in blocks :
             \A d \in blocks :
                 \/ d.size < m.size
                 \/ (d.size = m.size /\ (m.i < d.i \/ (m.i = d.i /\ m.j <= d.j)))

\* SequenceMatcher.find_longest_match on a[alo..ahi], b[blo..bhi]
find_longest_match(a, b, alo, ahi, blo, bhi) ==
    The({LongestBlock(blocks, alo, blo) : blocks \in {Blocks(a, b, alo, ahi, blo, bhi)}})

\* The total size of SequenceMatcher.get_matching_blocks: the longest block m,
\* then the same to its left and to its right.
RECURSIVE MatchingSize(_, _, _, _, _, _)
MatchingAround(a, b, alo, ahi, blo, bhi, m) ==
    IF m.size = 0 THEN 0
    ELSE m.size
         + MatchingSize(a, b, alo, m.i - 1, blo, m.j - 1)
         + MatchingSize(a, b, m.i + m.size, ahi, m.j + m.size, bhi)

MatchingSize(a, b, alo, ahi, blo, bhi) ==
    The({MatchingAround(a, b, alo, ahi, blo, bhi, m) :
            m \in {find_longest_match(a, b, alo, ahi, blo, bhi)}})

\* SequenceMatcher.ratio: 2.0 * matches / (len(a) + len(b)), as a fraction.
ratio(a, b) ==
    IF Len(a) + Len(b) = 0 THEN [num |-> 1, den |-> 1]
    ELSE [num |-> 2 * MatchingSize(a, b, 1, Len(a), 1, Len(b)), den |-> Len(a) + Len(b)]

CutoffNum == 6

CutoffDen == 10

\* (score, x) > (best_score, best_x) on tuples
ScoredAbove(score, x, best) ==
    \/ score.num * best.score.den > best.score.num * score.den
    \/ /\ score.num * best.score.den = best.score.num * score.den
       /\ StrLess(best.x, x)

\* The best so far after possibility x of the given score: x takes the place
\* when it is at or above the cutoff and its (score, x) is the greater tuple.
\* best.some is false until one possibility has passed the cutoff.
BestWith(x, score, best) ==
    IF score.num * CutoffDen >= CutoffNum * score.den
           /\ (~best.some \/ ScoredAbove(score, x, best))
    THEN [some |-> TRUE, score |-> score, x |-> x]
    ELSE best

\* max() over the (score, x) of the possibilities at or above the cutoff, taken
\* in list order: the first of the greatest tuples.
RECURSIVE BestMatch(_, _, _)
BestMatch(word, possibilities, best) ==
    IF possibilities = <<>> THEN best
    ELSE The({BestMatch(word, Tail(possibilities), next) :
                 next \in {BestWith(Head(possibilities), score, best) :
                              score \in {ratio(Head(possibilities), word)}}})

NoMatch == [some |-> FALSE, score |-> [num |-> 0, den |-> 1], x |-> <<>>]

\* difflib.get_close_matches(word, possibilities, n=1, cutoff=0.6)
get_close_matches(word, possibilities) ==
    The({IF best.some THEN <<best.x>> ELSE <<>> :
            best \in {BestMatch(word, possibilities, NoMatch)}})

\* An Optional[Package] or Optional[PackageInfo]: found says it is not None.
Nothing == [found |-> FALSE]

Some(value) == [found |-> TRUE, value |-> value]

\* The first package whose lower-cased name is the lower-cased name given.
FirstNamed(packages, lower_name) ==
    IF \E i \in DOMAIN packages : LowerChars(packages[i].name) = lower_name
    THEN Some(packages[CHOOSE i \in DOMAIN packages :
                  /\ LowerChars(packages[i].name) = lower_name
                  /\ \A j \in 1..(i - 1) : LowerChars(packages[j].name) # lower_name])
    ELSE Nothing

\* The first package whose name is the name given, letter case included.
FindExactMatchCaseSensitive(sbom_data, package_name) ==
    IF \E i \in DOMAIN sbom_data.packages : sbom_data.packages[i].name = package_name
    THEN Some(sbom_data.packages[CHOOSE i \in DOMAIN sbom_data.packages :
                  /\ sbom_data.packages[i].name = package_name
                  /\ \A j \in 1..(i - 1) : sbom_data.packages[j].name # package_name])
    ELSE Nothing

_find_exact_match(sbom_data, package_name) ==
    FirstNamed(sbom_data.packages, LowerChars(package_name))

_find_fuzzy_match(sbom_data, package_name) ==
    LET package_names == [i \in DOMAIN sbom_data.packages |-> sbom_data.packages[i].name]
        matches == get_close_matches(LowerChars(package_name),
                       [i \in DOMAIN package_names |-> LowerChars(package_names[i])])
    IN  The({IF found # <<>> THEN FirstNamed(sbom_data.packages, found[1]) ELSE Nothing :
                found \in {matches}})

PackageInfo(name, version, license, description, dependencies, vulnerabilities, supplier, homepage) ==
    [name |-> name, version |-> version, license |-> license, description |-> description,
     dependencies |-> dependencies, vulnerabilities |-> vulnerabilities,
     supplier |-> supplier, homepage |-> homepage]

\* The vulnerabilities are printed as "CVE (severity)": kept as the two parts.
_create_package_info(package, sbom_data) ==
    PackageInfo(package.name, package.version,
        IF package.licenses # <<>> THEN package.licenses[1].identifier ELSE None,
        package.description,
        [i \in DOMAIN package.dependencies |-> package.dependencies[i].package_name],
        [i \in DOMAIN package.vulnerabilities |->
            [cve_id   |-> IF Truthy(package.vulnerabilities[i].cve_id)
                          THEN package.vulnerabilities[i].cve_id ELSE "Unknown",
             severity |-> IF Truthy(package.vulnerabilities[i].severity)
                          THEN package.vulnerabilities[i].severity ELSE None]],
        package.supplier, package.homepage)

\* The PackageInfo of the package found, or None.
InfoOf(package, fuzzy, sbom_data) ==
    [fuzzy |-> fuzzy,
     found |-> package.found,
     info  |-> IF package.found THEN _create_package_info(package.value, sbom_data)
               ELSE None]

\* get_package_info, with whether it went through _find_fuzzy_match.
get_package_info(sbom_data, package_name) ==
    The({IF exact.found THEN InfoOf(exact, FALSE, sbom_data)
         ELSE The({InfoOf(package, TRUE, sbom_data) :
                      package \in {_find_fuzzy_match(sbom_data, package_name)}}) :
            exact \in {_find_exact_match(sbom_data, package_name)}})

(***************************************************************************)
(* Lookups: a document of a few packages with short names, and a query.    *)
(***************************************************************************)
MaxLookupPkgs == 2

MaxNameLen == 3

MaxNameChars == 4

Alphabet == {"a", "A", "b"}

LookupNames == UNION {[1..k -> Alphabet] : k \in 1..MaxNameLen}

Queries == UNION {[1..k -> Alphabet] : k \in 0..MaxNameLen}

\* Package i of a lookup document: its version tells it from the others.
LookupVersions == <<"1.0.0", "1.0.1", "1.0.2", "1.0.3">>

LookupPackage(i, name) ==
    Package("pkg" \o LookupVersions[i], name, LookupVersions[i], None, <<>>, <<>>, <<>>,
            None, None, None, None, <<>>)

InitLookup ==
    /\ file = NoFile
    /\ result = NoResult
    /\ \E n \in 0..MaxLookupPkgs : \E names \in [1..n -> LookupNames] :
           /\ SumSeq([i \in 1..n |-> Len(names[i])]) <= MaxNameChars
           /\ sbom = PlainDoc([i \in 1..n |-> LookupPackage(i, names[i])])

\* PackageChecker.get_package_info(sbom_data, package_name)
GetPackageInfo ==
    /\ sbom # NoDoc
    /\ result = NoResult
    /\ \E package_name \in Queries :
           \E info \in {get_package_info(sbom, package_name)} :
               result' = [op |-> "get_package_info", package_name |-> package_name,
                          fuzzy |-> info.fuzzy, found |-> info.found, info |-> info.info]
    /\ UNCHANGED <<file, sbom>>

NextLookup == GetPackageInfo

SpecLookup == InitLookup /\ [][NextLookup]_vars

LookedUp == result.op = "get_package_info"

\* The places of the packages whose name is the query, letter case aside.
ExactPlaces == {i \in DOMAIN sbom.packages : LowerChars(sbom.packages[i].name) = LowerChars(result.package_name)}

FirstPlace(places) == CHOOSE i \in places : \A j \in places : i <= j

\* The result is the information of the package at place i.
ReturnedPlace(i) ==
    /\ result.found
    /\ result.info.name = sbom.packages[i].name
    /\ result.info.version = sbom.packages[i].version

\* C17: when some package's name equals the query without regard to letter
\* case, the lookup returns the first such package in document order and the
\* fuzzy-matching step has not run.
C17_ExactMatchFirstAndNoFuzzy ==
    (LookedUp /\ ExactPlaces # {}) =>
        /\ ReturnedPlace(FirstPlace(ExactPlaces))
        /\ ~result.fuzzy

\* Two packages match a query that differs from the first of them in case only.
C17_Witness ==
    /\ LookedUp
    /\ Cardinality(ExactPlaces) = 2
    /\ result.package_name # sbom.packages[FirstPlace(ExactPlaces)].name
    /\ ReturnedPlace(FirstPlace(ExactPlaces))
    /\ ~result.fuzzy

\* The similarity of the package at place i to the query, both lower-cased.
Similarity(i) == ratio(LowerChars(sbom.packages[i].name), LowerChars(result.package_name))

\* p >= q on fractions
AtLeast(p, q) == p.num * q.den >= q.num * p.den

\* The places whose similarity is at least 0.6.
CloseEnough == {i \in DOMAIN sbom.packages : AtLeast(Similarity(i), [num |-> CutoffNum, den |-> CutoffDen])}

\* Of those, the places of the highest similarity.
MostSimilar == {i \in CloseEnough : \A j \in CloseEnough : AtLeast(Similarity(i), Similarity(j))}

\* C18: when no package's name equals the query, the lookup returns the package
\* of the highest similarity that is at least 0.6, the first in package-list
\* order among equally similar ones, and returns not-found when every
\* similarity is below 0.6.
C18_FuzzyBestFirstOccurrence ==
    (LookedUp /\ ExactPlaces = {}) =>
        IF CloseEnough = {} THEN ~result.found
        ELSE ReturnedPlace(FirstPlace(MostSimilar))

(***************************************************************************)
(* core/verifier.py: SBOMVerifier.  An issue is its fixed text and the     *)
(* package names printed after it.                                         *)
(***************************************************************************)
StartsWith(str, prefix) ==
    Len(str) >= Len(prefix) /\ SubSeq(str, 1, Len(prefix)) = prefix

Issue(text, names) == [text |-> text, names |-> names]

IssueIf(condition, text, names) == IF condition THEN <<Issue(text, names)>> ELSE <<>>

_verify_format(sbom_data) ==
    IssueIf(~Truthy(sbom_data.document_name), "Missing document name", <<>>)
    \o IssueIf(~Truthy(sbom_data.creator), "Missing creator information", <<>>)
    \o IssueIf(~Truthy(sbom_data.created), "Missing creation timestamp", <<>>)
    \o (IF sbom_data.format = "spdx"
        THEN IssueIf(~StartsWith(Chars(sbom_data.version), Chars("SPDX-")),
                     "Invalid SPDX version format", <<>>)
        ELSE IF sbom_data.format = "cyclonedx"
        THEN IssueIf(~StartsWith(Chars(sbom_data.version), Chars("1.")),
                     "Invalid CycloneDX version format", <<>>)
        ELSE <<>>)

\* for license_info in package.licenses: if not license_info.identifier
RECURSIVE InvalidLicensesOf(_, _)
InvalidLicensesOf(package, licenses) ==
    IF licenses = <<>> THEN <<>>
    ELSE IssueIf(~Truthy(Head(licenses).identifier), "missing license identifier", <<package.name>>)
         \o InvalidLicensesOf(package, Tail(licenses))

RECURSIVE InvalidLicenses(_)
InvalidLicenses(packages) ==
    IF packages = <<>> THEN <<>>
    ELSE InvalidLicensesOf(Head(packages), Head(packages).licenses)
         \o InvalidLicenses(Tail(packages))

_verify_licenses(sbom_data) ==
    LET packages_without_licenses ==
            NamesOf(SelectSeq(sbom_data.packages, LAMBDA p : p.licenses = <<>>))
    IN  IssueIf(packages_without_licenses # <<>>, "Packages without license information",
                packages_without_licenses)
        \o InvalidLicenses(sbom_data.packages)

\* SBOMVerifier._find_circular_dependencies
verifier_find_circular_dependencies(sbom_data) == <<>>

_verify_dependencies(sbom_data) ==
    LET circular_deps == verifier_find_circular_dependencies(sbom_data)
        packages_without_deps ==
            NamesOf(SelectSeq(sbom_data.packages,
                LAMBDA p : p.dependencies = <<>> /\ Len(sbom_data.packages) > 1))
    IN  IssueIf(circular_deps # <<>>, "Circular dependencies detected", circular_deps)
        \o IssueIf(packages_without_deps # <<>>, "Packages without dependency information",
                   packages_without_deps)

_verify_packages(sbom_data) ==
    LET packages_without_version ==
            NamesOf(SelectSeq(sbom_data.packages, LAMBDA p : ~Truthy(p.version)))
        packages_without_description ==
            NamesOf(SelectSeq(sbom_data.packages, LAMBDA p : ~Truthy(p.description)))
    IN  IssueIf(packages_without_version # <<>>, "Packages without version information",
                packages_without_version)
        \o IssueIf(packages_without_description # <<>>, "Packages without description",
                   packages_without_description)

_verify_metadata(sbom_data) ==
    IssueIf(DOMAIN sbom_data.metadata = {}, "Missing metadata information", <<>>)

VerificationResult(is_valid, issues, warnings, format_detected, version_detected) ==
    [is_valid |-> is_valid, issues |-> issues, warnings |-> warnings,
     format_detected |-> format_detected, version_detected |-> version_detected]

\* A verifier that returns at the first check that has found an issue.
VerifyStoppingAtFirstIssue(sbom_data) ==
    LET checks == <<_verify_format(sbom_data), _verify_licenses(sbom_data),
                    _verify_dependencies(sbom_data), _verify_packages(sbom_data),
                    _verify_metadata(sbom_data)>>
        issues == IF \A i \in DOMAIN checks : checks[i] = <<>> THEN <<>>
                  ELSE checks[CHOOSE i \in DOMAIN checks :
                           checks[i] # <<>> /\ \A j \in 1..(i - 1) : checks[j] = <<>>]
    IN  VerificationResult(Len(issues) = 0, issues, <<>>, sbom_data.format, sbom_data.version)

verify(sbom_data) ==
    LET issues == _verify_format(sbom_data) \o _verify_licenses(sbom_data)
                  \o _verify_dependencies(sbom_data) \o _verify_packages(sbom_data)
                  \o _verify_metadata(sbom_data)
    IN  VerificationResult(Len(issues) = 0, issues, <<>>, sbom_data.format, sbom_data.version)

(***************************************************************************)
(* Verifications: documents with and without each thing the verifier       *)
(* looks at.                                                               *)
(***************************************************************************)
MaxVerifyPkgs == 2

VerifiedItems == {"version", "description", "licenses", "identifier", "dependencies"}

VerifyNames == <<"flask", "requests", "urllib3">>

VerifiedPackage(i, lacks) ==
    Package("pkg" \o VerifyNames[i], VerifyNames[i],
            IF "version" \in lacks THEN None ELSE "1.0.0",
            IF "description" \in lacks THEN None ELSE "A package",
            IF "licenses" \in lacks THEN <<>>
            ELSE <<License(IF "identifier" \in lacks THEN "" ELSE "MIT", None, None)>>,
            IF "dependencies" \in lacks THEN <<>> ELSE OneDependency,
            <<>>, None, None, None, None, <<>>)

VerifyDoc(format, version, document_name, creator, metadata, packages) ==
    SBOMData(format, version, document_name, "", "2024-01-01T00:00:00", creator,
             packages, <<>>, metadata)

InitVerify ==
    /\ file = NoFile
    /\ result = NoResult
    /\ \/ \E format \in {"spdx", "cyclonedx", "swid"}, version \in {"SPDX-2.3", "2.3", "1.5", ""},
             document_name \in {"", "Test SBOM"}, creator \in {"", "Test Creator"},
             metadata \in {<<>>, [tool |-> "syft"]}, k \in 0..1 :
              \E lacks \in [1..k -> SUBSET VerifiedItems] :
                  sbom = VerifyDoc(format, version, document_name, creator, metadata,
                                   [i \in 1..k |-> VerifiedPackage(i, lacks[i])])
       \/ \E document_name \in {"", "Test SBOM"}, metadata \in {<<>>, [tool |-> "syft"]},
             k \in 2..MaxVerifyPkgs :
              \E lacks \in [1..k -> SUBSET VerifiedItems] :
                  sbom = VerifyDoc("spdx", "SPDX-2.3", document_name, "Test Creator", metadata,
                                   [i \in 1..k |-> VerifiedPackage(i, lacks[i])])
       \/ \E d1, d2 \in SeqsUpTo({"flask", "requests"}, 1) :
              sbom = TreeDoc(<<[name |-> "flask", deps |-> d1], [name |-> "requests", deps |-> d2]>>)

\* SBOMVerifier.verify(sbom_data)
Verify ==
    /\ sbom # NoDoc
    /\ result = NoResult
    /\ result' = [op |-> "verify", verification |-> verify(sbom)]
    /\ UNCHANGED <<file, sbom>>

NextVerify == Verify

SpecVerify == InitVerify /\ [][NextVerify]_vars

Verified == result.op = "verify"

HasIssue(text) == \E i \in DOMAIN result.verification.issues : result.verification.issues[i].text = text

SomePackage(lacking) == \E i \in DOMAIN sbom.packages : lacking[i]

\* C19: is_valid is true exactly when the issues list is empty; every check
\* has left its issue whatever the other checks found; and a document whose
\* document_name is "" and whose package list is empty is not valid and has
\* the issue of the missing document name.
C19_VerifyAccumulatesEveryCheck ==
    Verified =>
        /\ result.verification.is_valid <=> (result.verification.issues = <<>>)
        /\ HasIssue("Missing document name") <=> (sbom.document_name = "")
        /\ HasIssue("Missing creator information") <=> (sbom.creator = "")
        /\ HasIssue("Invalid SPDX version format")
               <=> (sbom.format = "spdx" /\ sbom.version \notin {"SPDX-2.3"})
        /\ HasIssue("Invalid CycloneDX version format")
               <=> (sbom.format = "cyclonedx" /\ sbom.version \notin {"1.5"})
        /\ HasIssue("Packages without license information")
               <=> SomePackage([i \in DOMAIN sbom.packages |-> Len(sbom.packages[i].licenses) = 0])
        /\ HasIssue("Packages without version information")
               <=> SomePackage([i \in DOMAIN sbom.packages |-> sbom.packages[i].version = None])
        /\ HasIssue("Packages without description")
               <=> SomePackage([i \in DOMAIN sbom.packages |-> sbom.packages[i].description = None])
        /\ HasIssue("Packages without dependency information")
               <=> (Len(sbom.packages) > 1
                    /\ SomePackage([i \in DOMAIN sbom.packages |-> Len(sbom.packages[i].dependencies) = 0]))
        /\ HasIssue("Missing metadata information") <=> (DOMAIN sbom.metadata = {})
        /\ (sbom.document_name = "" /\ sbom.packages = <<>>) =>
               (~result.verification.is_valid /\ HasIssue("Missing document name"))

\* The document without a name and without packages has been verified, and an
\* issue of a later check stands next to the one of the missing name.
C19_Witness ==
    /\ Verified
    /\ sbom.document_name = ""
    /\ sbom.packages = <<>>
    /\ ~result.verification.is_valid
    /\ HasIssue("Missing document name")
    /\ HasIssue("Missing metadata information")

(***************************************************************************)
(* services/sbom_service.py: SBOMService.parse_sbom around the parser.     *)
(***************************************************************************)
\* settings.max_file_size, in bytes
max_file_size == 104857600

\* The try block of parse_sbom.
ParseSbomBody(file_path, file_size, now) ==
    IF file_path.kind = "missing" THEN Raise("SBOMFileError")
    ELSE IF file_path.kind # "file" THEN Raise("SBOMFileError")
    ELSE IF file_size > max_file_size THEN Raise("SBOMFileError")
    ELSE parse_file(file_path, now)

\* The except clauses of parse_sbom, in their order: SBOMFileError is an
\* Exception that is neither a FileNotFoundError nor a PermissionError.
ParseSbomExcept(outcome) ==
    IF outcome.raised = None THEN outcome
    ELSE IF outcome.raised \in {"FileNotFoundError", "PermissionError"} THEN Raise("SBOMFileError")
    ELSE Raise("SBOMParseError")

parse_sbom(file_path, file_size, now) == ParseSbomExcept(ParseSbomBody(file_path, file_size, now))

\* file_path.stat().st_size
FileSizes == {0, 1024, max_file_size, max_file_size + 1}

\* SBOMService.parse_sbom(file_path), on a file of some size
ParseSbom ==
    /\ file # NoFile /\ result = NoResult
    /\ \E now \in Clock, file_size \in FileSizes :
           LET outcome == parse_sbom(file, file_size, now)
           IN  /\ result' = [op |-> "parse_sbom", raised |-> outcome.raised, format |-> None,
                             file_size |-> IF file.kind = "file" THEN file_size ELSE 0]
               /\ sbom' = IF outcome.raised = None THEN outcome.value ELSE NoDoc
               /\ UNCHANGED file

NextService == ParseFile \/ ParseSbom

SpecService == InitParse /\ [][NextService]_vars

NotARegularFile == file.kind \in {"missing", "directory"}

\* C20: a path that does not exist or is not a regular file is reported as
\* SBOMFileError by parse_file and by parse_sbom, and a file larger than the
\* configured maximum size is reported as SBOMFileError by parse_sbom.
C20_FileErrorsAreSBOMFileError ==
    /\ (result.op \in {"parse_file", "parse_sbom"} /\ NotARegularFile)
           => result.raised = "SBOMFileError"
    /\ (result.op = "parse_sbom" /\ file.kind = "file" /\ result.file_size > max_file_size)
           => result.raised = "SBOMFileError"

(***************************************************************************)
(* Further claims about the dependency tree.                               *)
(***************************************************************************)
\* The sum of the lengths of the lists of a dict of lists.
RECURSIVE SumOfLengths(_, _)
SumOfLengths(d, keys) ==
    IF keys = {} THEN 0
    ELSE LET k == CHOOSE x \in keys : TRUE
         IN  Len(d[k]) + SumOfLengths(d, keys \ {k})

\* The greatest value of a dict of numbers, 0 for the empty dict.
GreatestValue(d) ==
    IF DOMAIN d = {} THEN 0
    ELSE CHOOSE m \in {d[k] : k \in DOMAIN d} : \A k \in DOMAIN d : d[k] <= m

\* C21: the tree of a Document without packages has empty tree_structure,
\* root_packages, depth_analysis and circular_dependencies and 0 for
\* total_dependencies and max_depth; for every Document total_dependencies is
\* the sum of the adjacency-list lengths and max_depth the maximum of
\* depth_analysis.
C21_EmptyTreeAndAggregates ==
    TreeDone =>
        /\ sbom.packages = <<>> =>
               /\ DOMAIN result.tree.tree_structure = {}
               /\ result.tree.root_packages = <<>>
               /\ DOMAIN result.tree.depth_analysis = {}
               /\ result.tree.circular_dependencies = <<>>
               /\ result.tree.total_dependencies = 0
               /\ result.tree.max_depth = 0
        /\ result.tree.total_dependencies
               = SumOfLengths(result.tree.tree_structure, DOMAIN result.tree.tree_structure)
        /\ result.tree.max_depth = GreatestValue(result.tree.depth_analysis)

\* C21 witness: the tree of the Document without packages has been built.
C21_Witness ==
    /\ TreeDone
    /\ sbom.packages = <<>>
    /\ result.tree.total_dependencies = 0
    /\ result.tree.max_depth = 0

(***************************************************************************)
(* Further claims about the analyzer.                                      *)
(***************************************************************************)
\* All licenses of the Document, in package and list order.
RECURSIVE AllLicenses(_)
AllLicenses(packages) ==
    IF packages = <<>> THEN <<>>
    ELSE Head(packages).licenses \o AllLicenses(Tail(packages))

\* The place of an identifier in the ascending order of str.
LicenseRank(identifier) == CHOOSE i \in DOMAIN LicenseIds : LicenseIds[i] = identifier

RECURSIVE SumOfValues(_, _)
SumOfValues(d, keys) ==
    IF keys = {} THEN 0
    ELSE LET k == CHOOSE x \in keys : TRUE
         IN  d[k] + SumOfValues(d, keys \ {k})

\* C22: license_distribution counts the licenses with a non-empty identifier
\* under the identifier as written; its values sum to the number of such
\* licenses in the Document; unique_licenses holds exactly its keys, each
\* once, in ascending order.
C22_LicenseHistogramAndSortedUnique ==
    AnalyzeDone =>
        LET ls     == AllLicenses(sbom.packages)
            named  == {i \in DOMAIN ls : ls[i].identifier # ""}
            dist   == result.analysis.license_distribution
            unique == result.analysis.unique_licenses
        IN  /\ DOMAIN dist = {ls[i].identifier : i \in named}
            /\ \A k \in DOMAIN dist :
                   dist[k] = Cardinality({i \in named : ls[i].identifier = k})
            /\ SumOfValues(dist, DOMAIN dist) = Cardinality(named)
            /\ Range(unique) = DOMAIN dist
            /\ \A i, j \in DOMAIN unique : i < j =>
                   LicenseRank(unique[i]) < LicenseRank(unique[j])

(***************************************************************************)
(* Further claims about the converters.                                    *)
(***************************************************************************)
\* What the SWID converter reads the package from: the attributes of the XML
\* root, or the softwareIdentity object of the JSON document.
SwidSource ==
    IF file.content.kind = "xml" THEN file.content.attrs
    ELSE Get(FileJson, "softwareIdentity", <<>>)

IsSwidDemo ==
    /\ IsJsonObjectFile
    /\ DOMAIN FileJson = {"softwareIdentity"}
    /\ FileJson.softwareIdentity = SwidDemoJson.softwareIdentity

\* C23: a SWID conversion yields a Document of exactly one Package, with the
\* tagId, name and version of the softwareIdentity object (JSON) or of the root
\* element's attributes (XML) and without licenses, dependencies and
\* vulnerabilities; the document of a softwareIdentity with tagId t1, name
\* demo and version 1.0 converts to one package named demo of version 1.0.
C23_SwidYieldsOnePackage ==
    /\ Succeeded("SWIDParser.parse") =>
           /\ Len(sbom.packages) = 1
           /\ sbom.packages[1].licenses = <<>>
           /\ sbom.packages[1].dependencies = <<>>
           /\ sbom.packages[1].vulnerabilities = <<>>
           /\ \A key \in {"tagId", "name", "version"} \cap DOMAIN SwidSource :
                  SwidSource[key] = (CASE key = "tagId" -> sbom.packages[1].id
                                       [] key = "name" -> sbom.packages[1].name
                                       [] key = "version" -> sbom.packages[1].version)
    /\ (result.op = "SWIDParser.parse" /\ IsSwidDemo) =>
           /\ result.raised = None
           /\ sbom.packages[1].name = "demo"
           /\ sbom.packages[1].version = "1.0"

\* C23 witness: the demo document has been converted to its one package.
C23_Witness ==
    /\ Succeeded("SWIDParser.parse")
    /\ IsSwidDemo
    /\ Len(sbom.packages) = 1
    /\ sbom.packages[1].id = "t1"

\* The identifiers the claim gives the package converted from an SPDX package:
\* licenseDeclared, then licenseConcluded, each when present and not "NONE".
ClaimedSpdxLicenses(spdx_package) ==
    SelectSeq(<<"licenseDeclared", "licenseConcluded">>,
              LAMBDA key : key \in DOMAIN spdx_package /\ spdx_package[key] # "NONE")

\* C24: SPDX conversion gives a package one License for licenseDeclared and
\* one for licenseConcluded, each only when the field is present and is not
\* "NONE"; with both fields "NONE" or absent the license list is empty.
C24_SpdxLicensesSkipNone ==
    (Succeeded("SPDXParser.parse") /\ IsJsonObjectFile /\ "packages" \in DOMAIN FileJson) =>
        \A i \in DOMAIN FileJson.packages :
            LET claimed == ClaimedSpdxLicenses(FileJson.packages[i])
            IN  /\ Len(sbom.packages[i].licenses) = Len(claimed)
                /\ \A j \in DOMAIN claimed :
                       sbom.packages[i].licenses[j].identifier = FileJson.packages[i][claimed[j]]

(***************************************************************************)
(* generate_tree, one statement at a time.  calculate_depth calls itself   *)
(* once per level of the dependency chain and the interpreter allows only  *)
(* RecursionLimit nested calls, so here the run of generate_tree is laid   *)
(* out with its stack of calculate_depth frames in the state:              *)
(*   graph, built     the dependency_graph after the first `built`         *)
(*                    iterations of the loop of _build_dependency_graph;   *)
(*   i                iterations done of the loop over sbom_data.packages  *)
(*                    in _calculate_depth_analysis;                        *)
(*   stack            the calculate_depth frames, innermost last, each     *)
(*                    [package_name, depth, max_depth, next], next being   *)
(*                    the position in its for loop over the dependencies;  *)
(*   visited, depth_analysis   the closure variables.                      *)
(***************************************************************************)
\* sys.getrecursionlimit() of the interpreter the package runs on.
RecursionLimit == 1000

Running(graph, built, i, stack, visited, depth_analysis) ==
    [op |-> "running", graph |-> graph, built |-> built, i |-> i, stack |-> stack,
     visited |-> visited, depth_analysis |-> depth_analysis]

\* The frame after `visited.add(package_name); max_depth = depth`.
Frame(package_name, depth) ==
    [package_name |-> package_name, depth |-> depth, max_depth |-> depth, next |-> 1]

\* One iteration of `for package in sbom_data.packages` in _build_dependency_graph.
BuildStep(sbom_data, r) ==
    [r EXCEPT !.built = @ + 1,
              !.graph = GraphAddDeps(@, sbom_data.packages[r.built + 1].name,
                                     sbom_data.packages[r.built + 1].dependencies)]

\* One iteration of `for package in sbom_data.packages` in _calculate_depth_analysis.
OuterStep(sbom_data, r) ==
    IF sbom_data.packages[r.i + 1].name \notin r.visited
    THEN [r EXCEPT !.i = @ + 1,
                   !.stack = <<Frame(sbom_data.packages[r.i + 1].name, 0)>>,
                   !.visited = @ \cup {sbom_data.packages[r.i + 1].name}]
    ELSE [r EXCEPT !.i = @ + 1]

\* `dep_depth = calculate_depth(dep, depth + 1)` in the innermost frame: one
\* call more than the interpreter allows raises RecursionError; a visited
\* dep returns depth + 1 at once; any other dep gets a frame of its own.
CallStep(r, top, dep) ==
    IF Len(r.stack) >= RecursionLimit
    THEN [op |-> "generate_tree_run", outcome |-> Raise("RecursionError")]
    ELSE IF dep \in r.visited
    THEN [r EXCEPT !.stack[Len(r.stack)] =
              [top EXCEPT !.max_depth = Max(@, top.depth + 1), !.next = @ + 1]]
    ELSE [r EXCEPT !.stack = Append(@, Frame(dep, top.depth + 1)),
                   !.visited = @ \cup {dep}]

\* `depth_analysis[package_name] = max_depth; return max_depth` in the
\* innermost frame, and `max_depth = max(max_depth, dep_depth)` in its caller.
ReturnStep(r, top) ==
    LET caller == Len(r.stack) - 1
    IN  [r EXCEPT !.depth_analysis = DictPut(@, top.package_name, top.max_depth),
                  !.stack = IF caller = 0 THEN <<>>
                            ELSE [SubSeq(@, 1, caller) EXCEPT ![caller] =
                                     [@ EXCEPT !.max_depth = Max(@, top.max_depth),
                                               !.next = @ + 1]]]

\* The next statement of the run r of generate_tree(sbom_data).
Step(sbom_data, r) ==
    IF r.built < Len(sbom_data.packages) THEN BuildStep(sbom_data, r)
    ELSE IF r.stack # <<>>
    THEN LET top  == r.stack[Len(r.stack)]
             deps == GraphGet(r.graph, top.package_name)
         IN  IF top.next <= Len(deps) THEN CallStep(r, top, deps[top.next])
             ELSE ReturnStep(r, top)
    ELSE IF r.i < Len(sbom_data.packages) THEN OuterStep(sbom_data, r)
    ELSE [op |-> "generate_tree_run",
          outcome |-> Return([depth_analysis |-> r.depth_analysis,
                              tree_structure |-> r.graph.adj])]

\* The next k statements, or as many as the run still has.
RECURSIVE Steps(_, _, _)
Steps(sbom_data, r, k) ==
    IF k = 0 \/ r.op # "running" THEN r
    ELSE Steps(sbom_data, Step(sbom_data, r), k - 1)

\* A chain of n packages: package i depends on package i + 1.
ChainDoc(n) ==
    PlainDoc([i \in 1..n |->
        Package("pkg" \o ToString(i), "n" \o ToString(i), "1.0.0", None, <<>>,
                IF i < n
                THEN <<Dependency("pkg" \o ToString(i + 1), "n" \o ToString(i + 1), "DEPENDS_ON")>>
                ELSE <<>>,
                <<>>, None, None, None, None, <<>>)])

\* The run is observed after every statement or after every StepsAtOnce of them.
StepsAtOnce == 100

InitRun ==
    /\ file = NoFile
    /\ result = NoResult
    /\ \/ \E n \in {1, 2, RecursionLimit + 1} : sbom = ChainDoc(n)
       \/ \E k \in 0..MaxPkgs :
              \E names \in [1..k -> Names], lens \in [1..k -> 0..MaxRunEdges] :
                  /\ SumSeq(lens) <= MaxRunEdges
                  /\ \E flat \in [1..SumSeq(lens) -> Names] :
                         sbom = TreeDoc(TreeShape(names, lens, flat))

\* DependencyViewer.generate_tree(sbom_data) is entered.
StartRun ==
    /\ sbom # NoDoc
    /\ result = NoResult
    /\ result' = Running(EmptyGraph, 0, 0, <<>>, {}, <<>>)
    /\ UNCHANGED <<file, sbom>>

RunOn ==
    /\ result.op = "running"
    /\ \E k \in {1, StepsAtOnce} : result' = Steps(sbom, result, k)
    /\ UNCHANGED <<file, sbom>>

NextRun == StartRun \/ RunOn

SpecRun == InitRun /\ [][NextRun]_vars

RunEnded == result.op = "generate_tree_run"

\* The run, ended without an exception, has computed what generate_tree returns.
RunAgreesWithGenerateTree ==
    (RunEnded /\ result.outcome.raised = None /\ Len(sbom.packages) <= MaxPkgs) =>
        /\ result.outcome.value.depth_analysis = generate_tree(sbom).depth_analysis
        /\ result.outcome.value.tree_structure = generate_tree(sbom).tree_structure

\* C25: the dependency-tree builder ends with a complete result and without
\* an exception for every well-typed Document (the analyzer and the verifier
\* likewise), whatever cycles, self-loops, dangling references or repeated
\* names its dependencies hold.
C25_TreeBuilderNeverRaises ==
    RunEnded => result.outcome.raised = None

(***************************************************************************)
(* Further claims about the analysis and the dependency tree.              *)
(***************************************************************************)
Analyzed == result.op = "analyze"

\* Every package has a name of its own and every dependency names a package.
WellLinked(d) ==
    /\ \A i, j \in DOMAIN d.packages : i # j => d.packages[i].name # d.packages[j].name
    /\ \A e \in DocEdges(d) : e[2] \in PkgNames(d)

\* C26: for a Document whose dependency graph is acyclic, dependency_depth
\* maps each package name to the number of edges on the longest dependency
\* path starting at that package, whatever the order of the packages and of
\* the dependency lists, also when a package is reachable by a short and by
\* a long path.
C26_DependencyDepthIsLongestPath ==
    (Analyzed /\ WellLinked(sbom) /\ ~HasCycle(DocEdges(sbom))) =>
        \A n \in PkgNames(sbom) :
            /\ n \in DOMAIN result.analysis.dependency_depth
            /\ result.analysis.dependency_depth[n] = LongestPath(DocEdges(sbom), n)

\* The names of a reported cycle without the closing one.
Opening(cycle) == SubSeq(cycle, 1, Len(cycle) - 1)

\* C27: every entry of circular_dependencies has at least two names, starts
\* and ends with the same name, follows an edge of tree_structure from each
\* name to the next, and repeats no name but the closing one.
C27_CyclesAreClosedSimplePaths ==
    TreeDone =>
        \A k \in DOMAIN result.tree.circular_dependencies :
            LET cycle == result.tree.circular_dependencies[k]
            IN  /\ Len(cycle) >= 2
                /\ cycle[1] = cycle[Len(cycle)]
                /\ \A i \in DOMAIN Opening(cycle) :
                       /\ cycle[i] \in DOMAIN result.tree.tree_structure
                       /\ cycle[i + 1] \in Range(result.tree.tree_structure[cycle[i]])
                /\ \A i, j \in DOMAIN Opening(cycle) : i # j => cycle[i] # cycle[j]

\* C27 witness: a cycle through two names is reported that the search entered
\* from a third name, which is not part of the entry.
C27_Witness ==
    /\ TreeDone
    /\ \E k \in DOMAIN result.tree.circular_dependencies :
           LET cycle == result.tree.circular_dependencies[k]
           IN  /\ Len(cycle) = 3
               /\ cycle[1] = cycle[3]
               /\ cycle[1] # cycle[2]
               /\ \E n \in DOMAIN result.tree.tree_structure :
                      /\ n \notin Range(cycle)
                      /\ n = sbom.packages[1].name
                      /\ cycle[1] \in Range(result.tree.tree_structure[n])

\* The place of a message's rule in the order the claim fixes.
RuleRank(message) ==
    CASE message.rule \in {"completeness_low", "completeness_moderate"} -> 1
      [] message.rule = "licenses" -> 2
      [] message.rule = "dependencies" -> 3
      [] message.rule = "versions" -> 4
      [] message.rule = "vulnerabilities" -> 5

Recommended(rule) ==
    \E k \in DOMAIN result.analysis.recommendations :
        result.analysis.recommendations[k].rule = rule

\* C28: the recommendations hold the "low" completeness message iff the score
\* is below 50, the "moderate" one iff it is at least 50 and below 80, and
\* never both; the messages come in the order completeness, missing licenses,
\* missing dependencies, missing versions, vulnerabilities; a message that
\* lists packages names at most 5; the missing-dependency message never
\* appears for a Document of one package.
C28_RecommendationRules ==
    Analyzed =>
        LET recs  == result.analysis.recommendations
            score == result.analysis.completeness_score
        IN  /\ Recommended("completeness_low") <=> score.num < 50 * score.den
            /\ Recommended("completeness_moderate") <=>
                   (score.num >= 50 * score.den /\ score.num < 80 * score.den)
            /\ \A i, j \in DOMAIN recs : i < j => RuleRank(recs[i]) < RuleRank(recs[j])
            /\ \A k \in DOMAIN recs : "names" \in DOMAIN recs[k] => Len(recs[k].names) <= 5
            /\ Len(sbom.packages) = 1 => ~Recommended("dependencies")

\* C28 witness: six packages lack a license and a dependency list, the score
\* is low, and the two messages list five of them after the completeness one.
C28_Witness ==
    /\ Analyzed
    /\ Len(SelectSeq(sbom.packages, LAMBDA p : p.licenses = <<>> /\ p.dependencies = <<>>)) = 6
    /\ Len(result.analysis.recommendations) = 4
    /\ result.analysis.recommendations[1].rule = "completeness_low"
    /\ result.analysis.recommendations[2].rule = "licenses"
    /\ Len(result.analysis.recommendations[2].names) = 5
    /\ result.analysis.recommendations[3].rule = "dependencies"
    /\ Len(result.analysis.recommendations[3].names) = 5

(***************************************************************************)
(* Further claims about verification.                                      *)
(***************************************************************************)
\* C29: verify adds a "Circular dependencies detected" issue, and so returns
\* is_valid = false, for every Document for which the dependency tree builder
\* reports a non-empty circular_dependencies.
C29_VerifyReportsCycles ==
    (Verified /\ generate_tree(sbom).circular_dependencies # <<>>) =>
        /\ HasIssue("Circular dependencies detected")
        /\ ~result.verification.is_valid

(***************************************************************************)
(* container.py: the analyzer, the verifier, the dependency viewer and the *)
(* package checker are Singleton providers, so every caller in the process *)
(* works on the same four instances.  An instance is modelled by its       *)
(* attribute dict, and a method call by its Effect: the instance and the   *)
(* argument as the call leaves them, and the value returned.               *)
(***************************************************************************)
\* None of the four classes defines __init__: a new instance has no attribute.
FreshInstance == <<>>

Container ==
    [analyzer |-> FreshInstance, verifier |-> FreshInstance,
     dependency_viewer |-> FreshInstance, package_checker |-> FreshInstance]

Effect(self, sbom_data, ret) == [self |-> self, sbom_data |-> sbom_data, ret |-> ret]

\* list(set) of the process: the members in the order its string hashing gives.
HashOrdered(hash_order, S) == SelectSeq(hash_order, LAMBDA x : x \in S)

SBOMAnalyzer_analyze(self, sbom_data, hash_order) ==
    Effect(self, sbom_data,
           analyze(sbom_data, HashOrdered(hash_order, DOMAIN _analyze_licenses(sbom_data))))

\* A plausible slip: the dependency graph is kept on the instance and grows
\* with every call.
GenerateTreeOnKeptGraph(self, sbom_data) ==
    LET dependency_graph == GraphAddPackages(Get(self, "dependency_graph", EmptyGraph),
                                             sbom_data.packages)
    IN  Effect([dependency_graph |-> dependency_graph], sbom_data,
               [generate_tree(sbom_data) EXCEPT
                    !.tree_structure = dependency_graph.adj,
                    !.total_dependencies = TotalDependencies(dependency_graph)])

DependencyViewer_generate_tree(self, sbom_data) ==
    Effect(self, sbom_data, generate_tree(sbom_data))

SBOMVerifier_verify(self, sbom_data) == Effect(self, sbom_data, verify(sbom_data))

PackageChecker_get_package_info(self, sbom_data, package_name) ==
    Effect(self, sbom_data, get_package_info(sbom_data, package_name))

\* The Documents the callers pass: without packages, with a dependency chain,
\* with a dependency cycle, with two licenses; and, for the lookups, with
\* packages of short names.
SharedDocs ==
    {TreeDoc(<<>>),
     TreeDoc(<<[name |-> "flask", deps |-> <<"requests">>], [name |-> "requests", deps |-> <<>>]>>),
     TreeDoc(<<[name |-> "flask", deps |-> <<"requests">>],
               [name |-> "requests", deps |-> <<"flask">>]>>),
     PlainDoc(<<LicensedPackage(1, <<"MIT", "Apache-2.0">>)>>)}

SharedLookupDocs ==
    {PlainDoc(<<LookupPackage(1, <<"a", "b">>), LookupPackage(2, <<"A">>)>>),
     PlainDoc(<<LookupPackage(1, <<"b">>)>>)}

SharedQueries == {<<"a">>, <<"a", "b", "b">>}

MaxCalls == 3

Call(method, passed, package_name) ==
    [method |-> method, passed |-> passed, package_name |-> package_name]

InitContainer ==
    /\ file = NoFile
    /\ sbom = NoDoc
    /\ \E hash_order \in ListsOfSet({"MIT", "Apache-2.0"}) :
           result = [op |-> "container", instances |-> Container, hash_order |-> hash_order,
                     history |-> <<>>, ret |-> None]

CanCall == result.op = "container" /\ Len(result.history) < MaxCalls

CallAnalyzer ==
    /\ CanCall
    /\ \E d \in SharedDocs :
           \E e \in {SBOMAnalyzer_analyze(result.instances.analyzer, d, result.hash_order)} :
               /\ result' = [result EXCEPT !.instances.analyzer = e.self,
                                           !.history = Append(@, Call("analyze", d, None)),
                                           !.ret = e.ret]
               /\ sbom' = e.sbom_data
    /\ UNCHANGED file

CallDependencyViewer ==
    /\ CanCall
    /\ \E d \in SharedDocs :
           \E e \in {DependencyViewer_generate_tree(result.instances.dependency_viewer, d)} :
               /\ result' = [result EXCEPT !.instances.dependency_viewer = e.self,
                                           !.history = Append(@, Call("generate_tree", d, None)),
                                           !.ret = e.ret]
               /\ sbom' = e.sbom_data
    /\ UNCHANGED file

CallVerifier ==
    /\ CanCall
    /\ \E d \in SharedDocs :
           \E e \in {SBOMVerifier_verify(result.instances.verifier, d)} :
               /\ result' = [result EXCEPT !.instances.verifier = e.self,
                                           !.history = Append(@, Call("verify", d, None)),
                                           !.ret = e.ret]
               /\ sbom' = e.sbom_data
    /\ UNCHANGED file

CallPackageChecker ==
    /\ CanCall
    /\ \E d \in SharedLookupDocs, package_name \in SharedQueries :
           \E e \in {PackageChecker_get_package_info(result.instances.package_checker, d,
                                                      package_name)} :
               /\ result' = [result EXCEPT !.instances.package_checker = e.self,
                                           !.history = Append(@, Call("get_package_info", d,
                                                                      package_name)),
                                           !.ret = e.ret]
               /\ sbom' = e.sbom_data
    /\ UNCHANGED file

NextContainer == CallAnalyzer \/ CallDependencyViewer \/ CallVerifier \/ CallPackageChecker

SpecContainer == InitContainer /\ [][NextContainer]_vars

SomeCallMade == result.op = "container" /\ result.history # <<>>

LastCall == result.history[Len(result.history)]

\* What the call returns when it is the first one made on a new instance.
FirstAnswer(call, hash_order) ==
    CASE call.method = "analyze" ->
             SBOMAnalyzer_analyze(FreshInstance, call.passed, hash_order).ret
      [] call.method = "generate_tree" ->
             DependencyViewer_generate_tree(FreshInstance, call.passed).ret
      [] call.method = "verify" -> SBOMVerifier_verify(FreshInstance, call.passed).ret
      [] call.method = "get_package_info" ->
             PackageChecker_get_package_info(FreshInstance, call.passed, call.package_name).ret

====
